---- MODULE Spec2Model ----
(***************************************************************************)
(* School management frontend: the axios client with its two interceptors  *)
(* (services/api.js), the role-based Dashboard router, the Layout gate and *)
(* the HolidaysEvents / ClassesManagement resource views.                   *)
(*                                                                         *)
(* The specifications share the variables below:                           *)
(*   Spec          the API client, persisted credentials and the session   *)
(*   SpecCalls     the API functions, called one at a time                 *)
(*   SpecRoutes    Dashboard + Layout rendering per user and URL           *)
(*   SpecHolidays  the HolidaysEvents view over the API client, holiday    *)
(*                 form in use (FairSpecHolidays: with the fairness of     *)
(*                 backend and browser; SpecHolidaysEvents: both forms)    *)
(*   SpecClasses   the ClassesManagement view over the API client          *)
(*   SpecSetup     the one-time creation of the Super Admin account        *)
(* The views are mounted as their routes' elements, on their own.          *)
(***************************************************************************)
EXTENDS Integers, Sequences, FiniteSets, TLC

VARIABLES
    lsToken,      \* localStorage 'token'  (NULL when the key is absent)
    lsUser,       \* localStorage 'user'   (NULL when the key is absent)
    ctxUser,      \* AuthContext state: the current user (NULL when logged out)
    pathname,     \* window.location pathname, a sequence of segments
    reloadPending,\* window.location.href was assigned: the document is about to be replaced
    net,          \* requests in flight: id -> request record (with the response once the server answered)
    outcome,      \* how the most recently settled API call ended for its caller
    alertMsg,     \* text of the most recent window.alert
    lastEvent,    \* label of the step that produced this state
    server,       \* backend: the collections, the users and the setup attempts under way
    view,         \* state of the mounted resource view (HolidaysEvents or ClassesManagement)
    fetches,      \* pending fetchData / fetchInitialData invocations (their Promise.all)
    quota         \* user actions so far: mounts of a view, form submissions

vars == <<lsToken, lsUser, ctxUser, pathname, reloadPending, net, outcome,
          alertMsg, lastEvent, server, view, fetches, quota>>

authVars == <<lsToken, lsUser, ctxUser>>
viewVars == <<server, view, fetches, quota>>

(***************************************************************************)
(* Bounds of the model.                                                    *)
(***************************************************************************)
MaxInFlight == 2      \* session-level requests in flight at once
MaxMounts == 1        \* times a resource view is mounted
MaxSubmits == 1       \* create forms submitted (accepted by the browser's validation)
NumTokens == 2        \* distinct access tokens the backend hands out
MaxResubmits == 1     \* times a form is submitted again while its create call is pending
MaxSetupAttempts == 3 \* runs of the setup script / calls of the setup endpoint

(***************************************************************************)
(* Values.                                                                 *)
(***************************************************************************)
NULL == "null"                      \* JS null / undefined / absent localStorage key
\* An access token is a one-element sequence; the absent token is <<>>.
Tokens == {<<i>> : i \in 1..NumTokens}
NoToken == <<>>
\* A user object is represented by the one field the routing code reads: role.
KnownRoles == {"SUPER_ADMIN", "ADMIN", "TEACHER", "PARENT", "STUDENT"}
UserRoles == KnownRoles \cup {"GUEST"}     \* GUEST: a role string the frontend does not know
NoDetail == "<undefined>"           \* error body without a detail field
NaN == -1                           \* parseInt's NaN (no digit string parses to a negative)

LoginPath == <<"login">>
DashboardPath == <<"dashboard">>

(***************************************************************************)
(* Text of form fields: sequences of characters, so that parseInt is a     *)
(* computation.                                                            *)
(***************************************************************************)
DigitChars == {"0", "1", "2", "3", "4", "5", "6", "7", "8", "9"}

DigitValue(c) ==
    CASE c = "0" -> 0 [] c = "1" -> 1 [] c = "2" -> 2 [] c = "3" -> 3 [] c = "4" -> 4
      [] c = "5" -> 5 [] c = "6" -> 6 [] c = "7" -> 7 [] c = "8" -> 8 [] c = "9" -> 9

RECURSIVE ParseDigits(_, _, _)
ParseDigits(s, i, acc) ==
    IF i > Len(s) \/ s[i] \notin DigitChars
    THEN acc
    ELSE ParseDigits(s, i + 1, acc * 10 + DigitValue(s[i]))

\* parseInt(s) / parseInt(s, 10): the longest leading run of digits, NaN if there is none.
parseInt(s) ==
    IF Len(s) = 0 \/ s[1] \notin DigitChars THEN NaN ELSE ParseDigits(s, 1, 0)

(***************************************************************************)
(* services/api.js: the axios instance and its interceptors.               *)
(***************************************************************************)
\* A request config as an API function hands it to the axios instance.
Config(fn, method, url, data) ==
    [fn |-> fn, method |-> method, url |-> url, data |-> data, Authorization |-> <<>>]

NoBody == [none |-> TRUE]

\* Faulty variant: the header is written without testing the token.
RequestInterceptorUnconditional(config, token) ==
    [config EXCEPT !.Authorization = <<"Bearer">> \o token]

\* api.interceptors.request: attach the bearer token read from storage now.
RequestInterceptor(config, token) ==
    IF token # NoToken
    THEN [config EXCEPT !.Authorization = <<"Bearer">> \o token]
    ELSE config

\* api.interceptors.response, error branch: does this error trigger the session reset?
Is401(resp) == resp.hasResponse /\ resp.status = 401

\* authAPI
authAPI_login(email, password) ==
    Config("authAPI.login", "post", <<"auth", "login-json">>,
           [email |-> email, password |-> password])

\* schoolsAPI
schoolsAPI_getAll ==
    Config("schoolsAPI.getAll", "get", <<"schools">>, NoBody)

schoolsAPI_delete(schoolId) ==
    Config("schoolsAPI.delete", "delete", <<"schools", schoolId>>, NoBody)

\* Faulty variant: the caller's object is posted as it is.
adminsAPI_inviteForwardsAll(adminData) ==
    Config("adminsAPI.invite", "post", <<"super", "invite-admin">>, adminData)

\* adminsAPI
adminsAPI_invite(adminData) ==
    Config("adminsAPI.invite", "post", <<"super", "invite-admin">>,
           [name |-> adminData.name,
            email |-> adminData.email,
            school_id |-> parseInt(adminData.school_id)])

adminsAPI_create(schoolId, adminData) ==
    Config("adminsAPI.create", "post", <<"schools", schoolId, "admins">>, adminData)

adminsAPI_update(adminId, adminData) ==
    Config("adminsAPI.update", "put", <<"schools", "admins", adminId>>, adminData)

adminsAPI_delete(adminId) ==
    Config("adminsAPI.delete", "delete", <<"schools", "admins", adminId>>, NoBody)

\* dashboardAPI
dashboardAPI_getStats ==
    Config("dashboardAPI.getStats", "get", <<"dashboard", "stats">>, NoBody)

\* schoolAdminAPI: the calls that create a user
schoolAdminAPI_createTeacher(teacherData) ==
    Config("schoolAdminAPI.createTeacher", "post", <<"admin", "teachers">>, teacherData)

schoolAdminAPI_createStudent(studentData) ==
    Config("schoolAdminAPI.createStudent", "post", <<"admin", "students">>, studentData)

schoolAdminAPI_createParent(parentData) ==
    Config("schoolAdminAPI.createParent", "post", <<"admin", "parents">>, parentData)

schoolAdminAPI_deleteTeacher(teacherId) ==
    Config("schoolAdminAPI.deleteTeacher", "delete", <<"admin", "teachers", teacherId>>,
           NoBody)

\* What the API function hands back to its caller when the HTTP call succeeded.
ReturnValue(fn, resp) ==
    IF fn \in {"schoolsAPI.delete", "adminsAPI.delete"}
    THEN [true |-> TRUE]
    ELSE resp.data

(***************************************************************************)
(* The network and the backend (the environment of the client).            *)
(***************************************************************************)
NoResp == [ok |-> FALSE, hasResponse |-> FALSE, status |-> 0, data |-> NoBody, detail |-> NoDetail]
OkResp(data) == [ok |-> TRUE, hasResponse |-> TRUE, status |-> 200, data |-> data, detail |-> NoDetail]
ErrResp(status, detail) ==
    [ok |-> FALSE, hasResponse |-> TRUE, status |-> status, data |-> NoBody, detail |-> detail]
NetErr == NoResp                    \* transport failure: error.response is undefined

NoOutcome == [fn |-> "none", kind |-> "none", value |-> NoBody, error |-> NoResp]
Resolved(fn, value) == [fn |-> fn, kind |-> "resolved", value |-> value, error |-> NoResp]
Rejected(fn, resp) == [fn |-> fn, kind |-> "rejected", value |-> NoBody, error |-> resp]

EmptyNet == [i \in {} |-> NoResp]
InFlight == DOMAIN net
\* The identifier of a new request: the smallest one not in use.
FreeIn(n) == CHOOSE i \in 1..(Cardinality(DOMAIN n) + 1) :
                 /\ i \notin DOMAIN n
                 /\ \A j \in 1..(i - 1) : j \in DOMAIN n
FreeId == FreeIn(net)
CanSend(n) == Cardinality(InFlight) + n <= MaxInFlight

\* The request as it leaves the client: the config after the request interceptor.
\* owner: the caller waiting for the result.
SessionOwner == [kind |-> "session"]
Outgoing(config, owner) ==
    [config |-> RequestInterceptor(config, lsToken), owner |-> owner,
     answered |-> FALSE, resp |-> NoResp]

Put(n, id, req) == [i \in DOMAIN n \cup {id} |-> IF i = id THEN req ELSE n[i]]
Drop(n, id) == [i \in DOMAIN n \ {id} |-> n[i]]

\* What the backend may answer to a session-level request.  Endpoints other than
\* login require authentication; an accepted token may still have expired.
BackendAnswers(config) ==
    IF config.fn = "authAPI.login"
    THEN {OkResp([access_token |-> t, user |-> r]) : t \in Tokens, r \in UserRoles}
         \cup {ErrResp(401, "Incorrect email or password"), NetErr}
    ELSE IF config.Authorization = <<>>
    THEN {ErrResp(401, "Not authenticated"), NetErr}
    ELSE {OkResp([body |-> config.fn]),
          ErrResp(400, "Bad request"),
          ErrResp(401, "Could not validate credentials"),
          ErrResp(403, "Not enough permissions"),
          ErrResp(500, NoDetail),
          NetErr}

(***************************************************************************)
(* AuthContext (context/AuthContext is not among the sources: modelled     *)
(* from the specification, section 4.2).                                   *)
(***************************************************************************)
IsSuperAdmin(user) == user = "SUPER_ADMIN"

AuthLogin(token, user) ==
    /\ lsToken' = token
    /\ lsUser' = user
    /\ ctxUser' = user

AuthLogout ==
    /\ lsToken' = NoToken
    /\ lsUser' = NULL
    /\ ctxUser' = NULL

(***************************************************************************)
(* Inputs of the session-level calls.                                      *)
(***************************************************************************)
SchoolIds == {"1", "2"}
\* adminData as a caller may pass it to adminsAPI.invite: the form's fields, and
\* the same with a stray role field.
InviteInputs ==
    {[name |-> n, email |-> "ann@school", school_id |-> sid] :
        n \in {"Ann", "Bob"}, sid \in {<<"1">>, <<"1", "2">>, <<"7", "x">>, <<>>}}
    \cup {[name |-> "Ann", email |-> "ann@school", school_id |-> sid, role |-> r] :
        sid \in {<<"2">>, <<>>}, r \in {"SUPER_ADMIN", "ADMIN"}}
\* adminData of the legacy create call: the CreateAdmin form's fields (the form
\* is not among the sources; it offers no role field).
CreateAdminInputs ==
    {[name |-> n, email |-> "bob@school", password |-> pw] :
        n \in {"Ann", "Bob"}, pw \in {"secret", ""}}

\* teacherData / studentData / parentData: the fields of the management forms
\* (not among the sources; they offer no role field).
PersonInputs == {[name |-> n, email |-> "kim@school"] : n \in {"Kim", "Lee"}}

\* The calls that ask the backend to create a user account.
UserCreatingFns ==
    {"adminsAPI.invite", "adminsAPI.create", "schoolAdminAPI.createTeacher",
     "schoolAdminAPI.createStudent", "schoolAdminAPI.createParent"}

\* Every call of the API module the model exercises.
AllCalls ==
    {authAPI_login("root@school", "pw"), schoolsAPI_getAll, dashboardAPI_getStats}
    \cup {schoolsAPI_delete(sid) : sid \in SchoolIds}
    \cup {adminsAPI_update("3", [name |-> "Ann"]), adminsAPI_delete("3"),
          schoolAdminAPI_deleteTeacher("4")}
    \cup {adminsAPI_invite(d) : d \in InviteInputs}
    \cup {adminsAPI_create(sid, d) : sid \in SchoolIds, d \in CreateAdminInputs}
    \cup {schoolAdminAPI_createTeacher(d) : d \in PersonInputs}
    \cup {schoolAdminAPI_createStudent(d) : d \in PersonInputs}
    \cup {schoolAdminAPI_createParent(d) : d \in PersonInputs}

\* The calls of the session-level specification.
SessionCalls ==
    {authAPI_login("root@school", "pw"), schoolsAPI_getAll}

(***************************************************************************)
(* api.interceptors.response, error branch: what is left in storage and in *)
(* window.location after the handler ran on `resp`.                        *)
(***************************************************************************)
Browser == [token |-> lsToken, user |-> lsUser, href |-> pathname, leaving |-> reloadPending]

\* Faulty variant: only the token is removed on 401.
ResponseErrorInterceptorKeepsUser(resp, b) ==
    IF Is401(resp)
    THEN [token |-> NoToken, user |-> b.user, href |-> LoginPath, leaving |-> TRUE]
    ELSE b

\* Faulty variant: every 4xx status resets the session.
ResponseErrorInterceptorAny4xx(resp, b) ==
    IF resp.hasResponse /\ resp.status >= 400 /\ resp.status < 500
    THEN [token |-> NoToken, user |-> NULL, href |-> LoginPath, leaving |-> TRUE]
    ELSE b

\* Faulty variant: on 401 the storage is cleared but the location is left alone.
ResponseErrorInterceptorNoRedirect(resp, b) ==
    IF Is401(resp)
    THEN [token |-> NoToken, user |-> NULL, href |-> b.href, leaving |-> b.leaving]
    ELSE b

\* Faulty variant: a 403 resets the session as a 401 does.
ResponseErrorInterceptorAlsoForbidden(resp, b) ==
    IF resp.hasResponse /\ resp.status \in {401, 403}
    THEN [token |-> NoToken, user |-> NULL, href |-> LoginPath, leaving |-> TRUE]
    ELSE b

ResponseErrorInterceptor(resp, b) ==
    IF Is401(resp)
    THEN [token |-> NoToken, user |-> NULL, href |-> LoginPath, leaving |-> TRUE]
    ELSE b

(***************************************************************************)
(* The two versions of the api module: services/api.js, which ends with    *)
(* dashboardAPI, and the later one that adds schoolAdminAPI.  Each export  *)
(* is described by what it sends and what it returns.                      *)
(***************************************************************************)
Export(ns, name, method, url, params, body, returns) ==
    [ns |-> ns, name |-> name, method |-> method, url |-> url,
     params |-> params, body |-> body, returns |-> returns]

\* The module without schoolAdminAPI.
ApiExports ==
    {Export("authAPI", "login", "post", <<"auth", "login-json">>, {}, "{ email, password }", "response.data"),
     Export("authAPI", "setPassword", "post", <<"auth", "set-password">>, {}, "{ token, password }", "response.data"),
     Export("schoolsAPI", "getAll", "get", <<"schools">>, {"search"}, "none", "response.data"),
     Export("schoolsAPI", "getById", "get", <<"schools", ":id">>, {}, "none", "response.data"),
     Export("schoolsAPI", "create", "post", <<"schools">>, {}, "schoolData", "response.data"),
     Export("schoolsAPI", "update", "put", <<"schools", ":id">>, {}, "schoolData", "response.data"),
     Export("schoolsAPI", "delete", "delete", <<"schools", ":id">>, {}, "none", "true"),
     Export("adminsAPI", "getAll", "get", <<"schools", "admins">>, {"search", "school_id"}, "none", "response.data"),
     Export("adminsAPI", "getById", "get", <<"schools", "admins", ":id">>, {}, "none", "response.data"),
     Export("adminsAPI", "getBySchool", "get", <<"schools", ":id", "admins">>, {}, "none", "response.data"),
     Export("adminsAPI", "invite", "post", <<"super", "invite-admin">>, {}, "{ name, email, parseInt(school_id) }", "response.data"),
     Export("adminsAPI", "create", "post", <<"schools", ":id", "admins">>, {}, "adminData", "response.data"),
     Export("adminsAPI", "update", "put", <<"schools", "admins", ":id">>, {}, "adminData", "response.data"),
     Export("adminsAPI", "delete", "delete", <<"schools", "admins", ":id">>, {}, "none", "true"),
     Export("dashboardAPI", "getStats", "get", <<"dashboard", "stats">>, {}, "none", "response.data"),
     Export("dashboardAPI", "getUsers", "get", <<"dashboard", "users">>, {"search", "role", "school_id"}, "none", "response.data"),
     Export("dashboardAPI", "getUserById", "get", <<"dashboard", "users", ":id">>, {}, "none", "response.data")}

\* The module with schoolAdminAPI: the same four objects written out again,
\* then the functions of schoolAdminAPI that the views and the model use.
ExtendedApiExports ==
    {Export("authAPI", "login", "post", <<"auth", "login-json">>, {}, "{ email, password }", "response.data"),
     Export("authAPI", "setPassword", "post", <<"auth", "set-password">>, {}, "{ token, password }", "response.data"),
     Export("schoolsAPI", "getAll", "get", <<"schools">>, {"search"}, "none", "response.data"),
     Export("schoolsAPI", "getById", "get", <<"schools", ":id">>, {}, "none", "response.data"),
     Export("schoolsAPI", "create", "post", <<"schools">>, {}, "schoolData", "response.data"),
     Export("schoolsAPI", "update", "put", <<"schools", ":id">>, {}, "schoolData", "response.data"),
     Export("schoolsAPI", "delete", "delete", <<"schools", ":id">>, {}, "none", "true"),
     Export("adminsAPI", "getAll", "get", <<"schools", "admins">>, {"search", "school_id"}, "none", "response.data"),
     Export("adminsAPI", "getById", "get", <<"schools", "admins", ":id">>, {}, "none", "response.data"),
     Export("adminsAPI", "getBySchool", "get", <<"schools", ":id", "admins">>, {}, "none", "response.data"),
     Export("adminsAPI", "invite", "post", <<"super", "invite-admin">>, {}, "{ name, email, parseInt(school_id) }", "response.data"),
     Export("adminsAPI", "create", "post", <<"schools", ":id", "admins">>, {}, "adminData", "response.data"),
     Export("adminsAPI", "update", "put", <<"schools", "admins", ":id">>, {}, "adminData", "response.data"),
     Export("adminsAPI", "delete", "delete", <<"schools", "admins", ":id">>, {}, "none", "true"),
     Export("dashboardAPI", "getStats", "get", <<"dashboard", "stats">>, {}, "none", "response.data"),
     Export("dashboardAPI", "getUsers", "get", <<"dashboard", "users">>, {"search", "role", "school_id"}, "none", "response.data"),
     Export("dashboardAPI", "getUserById", "get", <<"dashboard", "users", ":id">>, {}, "none", "response.data"),
     Export("schoolAdminAPI", "getTeachers", "get", <<"admin", "teachers">>, {"search"}, "none", "response.data"),
     Export("schoolAdminAPI", "createTeacher", "post", <<"admin", "teachers">>, {}, "teacherData", "response.data"),
     Export("schoolAdminAPI", "deleteTeacher", "delete", <<"admin", "teachers", ":id">>, {}, "none", "response.data"),
     Export("schoolAdminAPI", "createStudent", "post", <<"admin", "students">>, {}, "studentData", "response.data"),
     Export("schoolAdminAPI", "createParent", "post", <<"admin", "parents">>, {}, "parentData", "response.data"),
     Export("schoolAdminAPI", "getSubjects", "get", <<"admin", "subjects">>, {}, "none", "response.data"),
     Export("schoolAdminAPI", "getClasses", "get", <<"admin", "classes">>, {}, "none", "response.data"),
     Export("schoolAdminAPI", "createClass", "post", <<"admin", "classes">>, {}, "classData", "response.data"),
     Export("schoolAdminAPI", "getHolidays", "get", <<"admin", "holidays">>, {}, "none", "response.data"),
     Export("schoolAdminAPI", "createHoliday", "post", <<"admin", "holidays">>, {}, "holidayData", "response.data"),
     Export("schoolAdminAPI", "getEvents", "get", <<"admin", "events">>, {}, "none", "response.data"),
     Export("schoolAdminAPI", "createEvent", "post", <<"admin", "events">>, {}, "eventData", "response.data")}

\* The request interceptor of the module with schoolAdminAPI.
ExtendedRequestInterceptor(config, token) ==
    IF token # NoToken
    THEN [config EXCEPT !.Authorization = <<"Bearer">> \o token]
    ELSE config

\* The error handler of its response interceptor.
ExtendedResponseErrorInterceptor(resp, b) ==
    IF resp.hasResponse /\ resp.status = 401
    THEN [token |-> NoToken, user |-> NULL, href |-> LoginPath, leaving |-> TRUE]
    ELSE b

\* The error handler ran: storage and location take its result, and the
\* rejection goes on to the caller (Promise.reject(error)).
RunErrorInterceptor(resp) ==
    LET after == ResponseErrorInterceptor(resp, Browser) IN
    /\ lsToken' = after.token
    /\ lsUser' = after.user
    /\ pathname' = after.href
    /\ reloadPending' = after.leaving
    /\ UNCHANGED ctxUser

(***************************************************************************)
(* Initial state: a fresh browser at the login view, nothing persisted.    *)
(***************************************************************************)
NoView == [kind |-> "none", inst |-> 0]
NoQuota == [mounts |-> 0, submits |-> 0, resubmits |-> 0]
\* A setup attempt that has not started, and what an attempt has not reported.
NoReport == [success |-> FALSE, already_exists |-> FALSE, message |-> ""]
IdleAttempt == [pc |-> "idle", method |-> "none", found |-> FALSE, report |-> NoReport]

EmptyServer ==
    [holidays |-> {}, events |-> {}, classes |-> {}, subjects |-> {}, teachers |-> {},
     users |-> {}, setup |-> [a \in 1..MaxSetupAttempts |-> IdleAttempt]]

Init ==
    /\ lsToken = NoToken
    /\ lsUser = NULL
    /\ ctxUser = NULL
    /\ pathname = LoginPath
    /\ reloadPending = FALSE
    /\ net = EmptyNet
    /\ outcome = NoOutcome
    /\ alertMsg = NULL
    /\ lastEvent = "init"
    /\ server = EmptyServer
    /\ view = NoView
    /\ fetches = {}
    /\ quota = NoQuota

(***************************************************************************)
(* Session-level steps (specification Spec).                               *)
(***************************************************************************)
\* A page calls one of the API functions: the request interceptor runs and the
\* request leaves.
CallApi(config) ==
    /\ CanSend(1)
    /\ net' = Put(net, FreeId, Outgoing(config, SessionOwner))
    /\ lastEvent' = "send"
    /\ UNCHANGED <<authVars, pathname, reloadPending, outcome, alertMsg, viewVars>>

\* The backend answers 2xx: the response interceptor passes the response on and
\* the API function returns.  The login page hands a login result to AuthContext.
RespondOk(id) ==
    /\ id \in InFlight
    /\ net[id].owner.kind = "session"
    /\ \E resp \in BackendAnswers(net[id].config) :
          /\ resp.ok
          /\ LET fn == net[id].config.fn IN
             /\ outcome' = Resolved(fn, ReturnValue(fn, resp))
             /\ IF fn = "authAPI.login"
                THEN /\ AuthLogin(resp.data.access_token, resp.data.user)
                     /\ pathname' = DashboardPath
                     /\ lastEvent' = "login"
                ELSE /\ UNCHANGED <<authVars, pathname>>
                     /\ lastEvent' = "resolved"
    /\ net' = Drop(net, id)
    /\ UNCHANGED <<reloadPending, alertMsg, viewVars>>

\* Faulty variant: a 401 resets the session only when the failed request carried
\* the token that is stored now.
RespondErrorComparingTokens(id) ==
    /\ id \in InFlight
    /\ net[id].owner.kind = "session"
    /\ \E resp \in BackendAnswers(net[id].config) :
          /\ ~resp.ok
          /\ IF net[id].config.Authorization = <<"Bearer">> \o lsToken
             THEN RunErrorInterceptor(resp)
             ELSE UNCHANGED <<authVars, pathname, reloadPending>>
          /\ outcome' = [Rejected(net[id].config.fn, resp) EXCEPT
                             !.value = [config |-> net[id].config, storedToken |-> lsToken]]
    /\ lastEvent' = "rejected"
    /\ net' = Drop(net, id)
    /\ UNCHANGED <<alertMsg, viewVars>>

\* The call fails (non-2xx status or transport failure): the error handler of
\* the response interceptor runs, then the caller sees the rejection.  The
\* error carries the request's config (err.config); storedToken remembers what
\* the storage held when the handler ran.
RespondError(id) ==
    /\ id \in InFlight
    /\ net[id].owner.kind = "session"
    /\ \E resp \in BackendAnswers(net[id].config) :
          /\ ~resp.ok
          /\ RunErrorInterceptor(resp)
          /\ outcome' = [Rejected(net[id].config.fn, resp) EXCEPT
                             !.value = [config |-> net[id].config, storedToken |-> lsToken]]
    /\ lastEvent' = "rejected"
    /\ net' = Drop(net, id)
    /\ UNCHANGED <<alertMsg, viewVars>>

\* AuthContext.logout (the logout button of the layout shell).
Logout ==
    /\ ctxUser # NULL
    /\ AuthLogout
    /\ pathname' = LoginPath
    /\ lastEvent' = "logout"
    /\ UNCHANGED <<reloadPending, net, outcome, alertMsg, viewVars>>

\* The browser replaces the document after window.location.href was assigned:
\* the application starts again from persisted storage, pending requests of the
\* old document are gone.
Reload ==
    /\ reloadPending
    /\ reloadPending' = FALSE
    /\ ctxUser' = lsUser
    /\ net' = EmptyNet
    /\ view' = NoView
    /\ fetches' = {}
    /\ lastEvent' = "reload"
    /\ UNCHANGED <<lsToken, lsUser, pathname, outcome, alertMsg, server, quota>>

Next ==
    \/ \E config \in SessionCalls : CallApi(config)
    \/ \E id \in 1..MaxInFlight : RespondOk(id)
    \/ \E id \in 1..MaxInFlight : RespondError(id)
    \/ Logout
    \/ Reload

Spec == Init /\ [][Next]_vars

(***************************************************************************)
(* Specification SpecCalls: one call at a time, over every API function    *)
(* and input of AllCalls.                                                  *)
(***************************************************************************)
CallOne(config) ==
    /\ InFlight = {}
    /\ CallApi(config)

NextCalls ==
    \/ \E config \in AllCalls : CallOne(config)
    \/ RespondOk(1)
    \/ RespondError(1)
    \/ Logout
    \/ Reload

SpecCalls == Init /\ [][NextCalls]_vars

(***************************************************************************)
(* components/Dashboard.jsx: the three route trees and their selection.    *)
(* A route is [path, element]; a path is a sequence of segments relative   *)
(* to /dashboard, the index route has the empty path.                      *)
(***************************************************************************)
(* Super Admin setup (the setup guide): the script and POST                *)
(* /super-admin/setup both check for an existing SUPER_ADMIN and create    *)
(* the account when they found none.  The check and the creation are two   *)
(* accesses to the database; attempts may overlap.                         *)
(***************************************************************************)
SetupMethods == {"script", "endpoint"}

SuperAdmins(users) == {u \in users : u.role = "SUPER_ADMIN"}

\* The predefined account, with the next id of the users table.
SuperAdminUser(users) ==
    [id |-> Cardinality(users) + 1, email |-> "blackholeinfiverse48@gmail.com",
     role |-> "SUPER_ADMIN", school_id |-> NULL]

\* What an attempt reports, first run and subsequent runs.
SetupCreated ==
    [success |-> TRUE, already_exists |-> FALSE, message |-> "Super Admin created successfully."]
SetupAlreadyExists ==
    [success |-> FALSE, already_exists |-> TRUE,
     message |-> "Super Admin already exists. Setup is disabled."]

\* Step 1: the attempt looks for a SUPER_ADMIN in the database.
SetupCheck(a, method) ==
    /\ server.setup[a].pc = "idle"
    /\ server' = [server EXCEPT
                     !.setup[a] = [pc |-> "checked", method |-> method,
                                   found |-> SuperAdmins(server.users) # {},
                                   report |-> NoReport]]
    /\ lastEvent' = "setupChecked"
    /\ UNCHANGED <<authVars, pathname, reloadPending, net, outcome, alertMsg,
                   view, fetches, quota>>

\* Step 2: it found none and creates the account.
SetupCreate(a) ==
    /\ server.setup[a].pc = "checked"
    /\ ~server.setup[a].found
    /\ server' = [server EXCEPT
                     !.users = @ \cup {SuperAdminUser(server.users)},
                     !.setup[a].pc = "done",
                     !.setup[a].report = SetupCreated]
    /\ lastEvent' = "setupCreated"
    /\ UNCHANGED <<authVars, pathname, reloadPending, net, outcome, alertMsg,
                   view, fetches, quota>>

\* Step 3: it found one, creates nothing and says so.
SetupRefuse(a) ==
    /\ server.setup[a].pc = "checked"
    /\ server.setup[a].found
    /\ server' = [server EXCEPT
                     !.setup[a].pc = "done",
                     !.setup[a].report = SetupAlreadyExists]
    /\ lastEvent' = "setupRefused"
    /\ UNCHANGED <<authVars, pathname, reloadPending, net, outcome, alertMsg,
                   view, fetches, quota>>

NextSetup ==
    \/ \E a \in 1..MaxSetupAttempts : \E method \in SetupMethods : SetupCheck(a, method)
    \/ \E a \in 1..MaxSetupAttempts : SetupCreate(a)
    \/ \E a \in 1..MaxSetupAttempts : SetupRefuse(a)

SpecSetup == Init /\ [][NextSetup]_vars

(***************************************************************************)
Route(path, element) == [path |-> path, element |-> element]

AdminRoutes ==
    << Route(<<>>, "SchoolAdminDashboard"),
       Route(<<"teachers">>, "TeachersManagement"),
       Route(<<"students">>, "StudentsManagement"),
       Route(<<"parents">>, "ParentsManagement"),
       Route(<<"classes">>, "ClassesManagement"),
       Route(<<"timetable">>, "TimetableManagement"),
       Route(<<"holidays-events">>, "HolidaysEvents"),
       Route(<<"announcements">>, "Announcements"),
       Route(<<"lessons">>, "LessonsView"),
       Route(<<"analytics">>, "Analytics") >>

\* Faulty variant: the teacher tree mounts the administrator's classes page.
TeacherRoutesWithAdminPage ==
    << Route(<<>>, "TeacherDashboard"),
       Route(<<"classes">>, "ClassesManagement"),
       Route(<<"classes", ":classId", "students">>, "MyStudents"),
       Route(<<"students">>, "MyStudents"),
       Route(<<"attendance">>, "Attendance") >>

TeacherRoutes ==
    << Route(<<>>, "TeacherDashboard"),
       Route(<<"classes">>, "MyClasses"),
       Route(<<"classes", ":classId", "students">>, "MyStudents"),
       Route(<<"students">>, "MyStudents"),
       Route(<<"attendance">>, "Attendance") >>

\* Faulty variant: the role-aware Dashboard drops the user list.
SuperAdminRoutesWithoutUsers ==
    << Route(<<>>, "DashboardOverview"),
       Route(<<"schools", ":id", "edit">>, "EditSchool"),
       Route(<<"schools", ":id">>, "SchoolDetails"),
       Route(<<"schools">>, "SchoolList"),
       Route(<<"create-school">>, "CreateSchool"),
       Route(<<"admins", ":id", "edit">>, "EditAdmin"),
       Route(<<"admins">>, "AdminList"),
       Route(<<"create-admin">>, "CreateAdmin") >>

SuperAdminRoutes ==
    << Route(<<>>, "DashboardOverview"),
       Route(<<"schools", ":id", "edit">>, "EditSchool"),
       Route(<<"schools", ":id">>, "SchoolDetails"),
       Route(<<"schools">>, "SchoolList"),
       Route(<<"create-school">>, "CreateSchool"),
       Route(<<"admins", ":id", "edit">>, "EditAdmin"),
       Route(<<"admins">>, "AdminList"),
       Route(<<"create-admin">>, "CreateAdmin"),
       Route(<<"users">>, "ViewAllUsers") >>

\* Faulty variant: the super-admin tree is selected for super admins only.
RouteTreeForKnownRolesOnly(user) ==
    IF user = "ADMIN" THEN AdminRoutes
    ELSE IF user = "TEACHER" THEN TeacherRoutes
    ELSE IF user = "SUPER_ADMIN" THEN SuperAdminRoutes
    ELSE <<>>

\* Faulty variant: the teacher test never succeeds.
RouteTreeWithoutTeacher(user) ==
    IF user = "ADMIN" THEN AdminRoutes ELSE SuperAdminRoutes

\* const isAdmin = user?.role === 'ADMIN'; const isTeacher = user?.role === 'TEACHER';
\* then isAdmin ? ... : isTeacher ? ... : ...
RouteTree(user) ==
    LET isAdmin == user = "ADMIN"
        isTeacher == user = "TEACHER"
    IN  IF isAdmin THEN AdminRoutes
        ELSE IF isTeacher THEN TeacherRoutes
        ELSE SuperAdminRoutes

\* <Routes>: the element of the route that matches the rest of the URL.  A
\* segment written :name matches any one segment; among several matching
\* routes the one with more literal segments wins, then the earlier one.
ParamSegments == {":id", ":classId"}

MatchesRoute(pattern, rest) ==
    /\ Len(pattern) = Len(rest)
    /\ \A i \in 1..Len(pattern) : pattern[i] \in ParamSegments \/ pattern[i] = rest[i]

Literals(pattern) == Cardinality({i \in 1..Len(pattern) : pattern[i] \notin ParamSegments})

Routes(tree, rest) ==
    LET matching == {i \in 1..Len(tree) : MatchesRoute(tree[i].path, rest)}
        better(i, j) == \/ Literals(tree[i].path) > Literals(tree[j].path)
                        \/ Literals(tree[i].path) = Literals(tree[j].path) /\ i <= j
    IN  IF matching = {}
        THEN "NoMatch"
        ELSE tree[CHOOSE i \in matching : \A j \in matching : better(i, j)].element

(***************************************************************************)
(* components/Layout.jsx (second component of the HolidaysEvents.jsx       *)
(* source file): the shell and its gate.                                   *)
(***************************************************************************)
\* Faulty variant: the last item leads to the school administrator's teachers page.
menuItemsWithTeachers ==
    << [id |-> "dashboard", path |-> <<"dashboard">>],
       [id |-> "schools", path |-> <<"dashboard", "schools">>],
       [id |-> "create-school", path |-> <<"dashboard", "create-school">>],
       [id |-> "admins", path |-> <<"dashboard", "admins">>],
       [id |-> "create-admin", path |-> <<"dashboard", "create-admin">>],
       [id |-> "teachers", path |-> <<"dashboard", "teachers">>] >>

menuItems ==
    << [id |-> "dashboard", path |-> <<"dashboard">>],
       [id |-> "schools", path |-> <<"dashboard", "schools">>],
       [id |-> "create-school", path |-> <<"dashboard", "create-school">>],
       [id |-> "admins", path |-> <<"dashboard", "admins">>],
       [id |-> "create-admin", path |-> <<"dashboard", "create-admin">>],
       [id |-> "users", path |-> <<"dashboard", "users">>] >>

\* A path as the string the browser holds: "/" before every segment.
Href(path) == [k \in 1..(2 * Len(path)) |-> IF k % 2 = 1 THEN "/" ELSE path[k \div 2]]

\* String.prototype.startsWith
StartsWith(str, prefix) ==
    Len(str) >= Len(prefix) /\ SubSeq(str, 1, Len(prefix)) = prefix

\* Faulty variant: only the item of the very page is active.
isActiveExactOnly(path) == Href(pathname) = Href(path)

\* const isActive = (path) => location.pathname === path ||
\*                            location.pathname.startsWith(path + '/')
isActive(path) ==
    \/ Href(pathname) = Href(path)
    \/ StartsWith(Href(pathname), Href(path) \o <<"/">>)

\* The items the navigation menu draws highlighted.
ActiveItems == {menuItems[i].id : i \in {j \in 1..Len(menuItems) : isActive(menuItems[j].path)}}

AccessDenied == [screen |-> "AccessDenied", sidebar |-> {}, header |-> FALSE, children |-> "none"]

\* Faulty variant: the shell is rendered whatever the capability check says.
LayoutWithoutGate(isSuperAdmin, children) ==
    [screen |-> "Shell",
     sidebar |-> {menuItems[i].id : i \in 1..Len(menuItems)},
     header |-> TRUE,
     children |-> children]

Layout(isSuperAdmin, children) ==
    IF ~isSuperAdmin
    THEN AccessDenied
    ELSE [screen |-> "Shell",
          sidebar |-> {menuItems[i].id : i \in 1..Len(menuItems)},
          header |-> TRUE,
          children |-> children]

\* <Layout><Routes>...</Routes></Layout>
Dashboard(user, rest) == Layout(IsSuperAdmin(user), Routes(RouteTree(user), rest))

\* The earlier Dashboard, written for the super admin alone: one fixed list of
\* routes inside the same <Layout>.
EarlierDashboardRoutes ==
    << Route(<<>>, "DashboardOverview"),
       Route(<<"schools", ":id", "edit">>, "EditSchool"),
       Route(<<"schools", ":id">>, "SchoolDetails"),
       Route(<<"schools">>, "SchoolList"),
       Route(<<"create-school">>, "CreateSchool"),
       Route(<<"admins", ":id", "edit">>, "EditAdmin"),
       Route(<<"admins">>, "AdminList"),
       Route(<<"create-admin">>, "CreateAdmin"),
       Route(<<"users">>, "ViewAllUsers") >>

EarlierDashboard(user, rest) ==
    Layout(IsSuperAdmin(user), Routes(EarlierDashboardRoutes, rest))

\* What the window shows: the Dashboard under /dashboard, else the login view.
UnderDashboard == Len(pathname) >= 1 /\ pathname[1] = "dashboard"
LoginScreen == [screen |-> "Login", sidebar |-> {}, header |-> FALSE, children |-> "none"]
Screen == IF UnderDashboard THEN Dashboard(ctxUser, Tail(pathname)) ELSE LoginScreen

(***************************************************************************)
(* Specification SpecRoutes: users of every role log in and out and visit  *)
(* URLs; the screen is a function of the user and the URL.                 *)
(***************************************************************************)
VisitedPaths ==
    {<<"dashboard">> \o rest : rest \in
        {<<>>, <<"teachers">>, <<"students">>, <<"parents">>, <<"classes">>,
         <<"timetable">>, <<"holidays-events">>, <<"announcements">>, <<"lessons">>,
         <<"analytics">>, <<"classes", "5", "students">>, <<"attendance">>,
         <<"schools", "7", "edit">>, <<"schools", "7">>, <<"schools">>,
         <<"create-school">>, <<"admins", "7", "edit">>, <<"admins">>,
         <<"create-admin">>, <<"users">>, <<"nowhere">>}}
    \cup {LoginPath}

\* handleNavigation(item.path): a click on a sidebar item of the shell.
MenuNavigate(i) ==
    /\ Screen.screen = "Shell"
    /\ pathname' = menuItems[i].path
    /\ lastEvent' = "navigate"
    /\ UNCHANGED <<authVars, reloadPending, net, outcome, alertMsg, viewVars>>

\* The user opens a URL: the document is loaded anew from persisted storage.
VisitUrl(path) ==
    /\ pathname' = path
    /\ ctxUser' = lsUser
    /\ net' = EmptyNet
    /\ reloadPending' = FALSE
    /\ lastEvent' = "visit"
    /\ UNCHANGED <<lsToken, lsUser, outcome, alertMsg, viewVars>>

NextRoutes ==
    \/ CallOne(authAPI_login("root@school", "pw"))
    \/ RespondOk(1)
    \/ RespondError(1)
    \/ Logout
    \/ Reload
    \/ \E i \in 1..Len(menuItems) : MenuNavigate(i)
    \/ \E path \in VisitedPaths : VisitUrl(path)

SpecRoutes == Init /\ [][NextRoutes]_vars

(***************************************************************************)
(* Specification FairSpecSession: the session-level steps, with documents  *)
(* opened under /dashboard whatever the storage holds.  The backend answers*)
(* every request, the browser delivers every answer and carries out the    *)
(* navigation it was told; the user owes nothing.                          *)
(***************************************************************************)
Respond(id) == RespondOk(id) \/ RespondError(id)

NextSession ==
    \/ \E config \in SessionCalls : CallApi(config)
    \/ \E id \in 1..MaxInFlight : RespondOk(id)
    \/ \E id \in 1..MaxInFlight : RespondError(id)
    \/ Logout
    \/ Reload
    \/ VisitUrl(DashboardPath)

FairSpecSession ==
    /\ Init
    /\ [][NextSession]_vars
    /\ \A id \in 1..MaxInFlight : WF_vars(Respond(id))
    /\ WF_vars(Reload)

(***************************************************************************)
(* schoolAdminAPI: the calls of the two resource views.                    *)
(***************************************************************************)
schoolAdminAPI_getHolidays ==
    Config("schoolAdminAPI.getHolidays", "get", <<"admin", "holidays">>, NoBody)

schoolAdminAPI_createHoliday(holidayData) ==
    Config("schoolAdminAPI.createHoliday", "post", <<"admin", "holidays">>, holidayData)

schoolAdminAPI_getEvents ==
    Config("schoolAdminAPI.getEvents", "get", <<"admin", "events">>, NoBody)

schoolAdminAPI_createEvent(eventData) ==
    Config("schoolAdminAPI.createEvent", "post", <<"admin", "events">>, eventData)

(***************************************************************************)
(* What the views share: the running handlers see the world                *)
(* [view, net, fetches, alert] and leave a new one.  A state setter of an  *)
(* instance that is no longer mounted has no effect.                       *)
(***************************************************************************)
World == [view |-> view, net |-> net, fetches |-> fetches, alert |-> alertMsg]

Live(w, inst) == w.view.kind # "none" /\ w.view.inst = inst

GetOwner(inst, f, what) == [kind |-> "get", inst |-> inst, fetch |-> f, what |-> what]
CreateOwner(inst, what) == [kind |-> "create", inst |-> inst, what |-> what]

NotDone == [done |-> FALSE, items |-> {}]
Done(items) == [done |-> TRUE, items |-> items]

\* The identifier of a new fetch invocation: the smallest one no pending
\* invocation and no request still in flight refers to.
FetchIdsInUse(n, fs) ==
    {f.id : f \in fs} \cup {n[i].owner.fetch : i \in {j \in DOMAIN n : n[j].owner.kind = "get"}}
NewFetchId(n, fs) ==
    CHOOSE i \in 1..(Cardinality(FetchIdsInUse(n, fs)) + 1) :
        /\ i \notin FetchIdsInUse(n, fs)
        /\ \A j \in 1..(i - 1) : j \in FetchIdsInUse(n, fs)

\* Promise.all([...]): the calls are made one after the other, each through
\* the request interceptor.
RECURSIVE SendAll(_, _, _, _)
SendAll(n, calls, inst, f) ==
    IF calls = <<>>
    THEN n
    ELSE SendAll(Put(n, FreeIn(n),
                     Outgoing(Head(calls).config, GetOwner(inst, f, Head(calls).what))),
                 Tail(calls), inst, f)

\* Faulty variant: the fallback string whatever the error carries.
AlertTextIgnoresDetail(resp, fallback) == fallback

\* err.response?.data?.detail || fallback
AlertText(resp, fallback) ==
    IF resp.hasResponse /\ resp.detail \notin {NoDetail, ""}
    THEN resp.detail
    ELSE fallback

\* What the backend may answer to a GET of a collection and to a create.
GetAnswers(config, items) ==
    IF config.Authorization = <<>>
    THEN {ErrResp(401, "Not authenticated")}
    ELSE {OkResp([items |-> items]),
          ErrResp(401, "Could not validate credentials"),
          ErrResp(500, NoDetail)}

CreateAnswers(config, record, refusal) ==
    IF config.Authorization = <<>>
    THEN {ErrResp(401, "Not authenticated")}
    ELSE {OkResp(record),
          ErrResp(400, refusal),
          ErrResp(401, "Could not validate credentials"),
          ErrResp(500, NoDetail),
          NetErr}

\* The record the backend stores for a created resource: the posted fields
\* and a fresh id.
Stored(collection, data) ==
    [f \in DOMAIN data \cup {"id"} |->
        IF f = "id" THEN Cardinality(collection) + 1 ELSE data[f]]

(***************************************************************************)
(* components/admin/HolidaysEvents.jsx                                     *)
(***************************************************************************)
EmptyHolidayForm == [name |-> "", start_date |-> "", end_date |-> "", description |-> ""]
EmptyEventForm ==
    [title |-> "", description |-> "", event_date |-> "", event_time |-> "", event_type |-> ""]

\* useState initial values
HolidaysEventsInitial(inst) ==
    [kind |-> "HolidaysEvents", inst |-> inst,
     holidays |-> {}, events |-> {}, loading |-> TRUE, error |-> "",
     showHolidayForm |-> FALSE, showEventForm |-> FALSE,
     holidayForm |-> EmptyHolidayForm, eventForm |-> EmptyEventForm]

HolidaysEventsCalls ==
    << [what |-> "holidays", config |-> schoolAdminAPI_getHolidays],
       [what |-> "events", config |-> schoolAdminAPI_getEvents] >>

\* fetchData, up to its await: setLoading(true) and the two calls.  `cause`
\* remembers the id of the created record the invocation follows (0: a mount).
fetchData(w, inst, cause) ==
    LET f == NewFetchId(w.net, w.fetches) IN
    [w EXCEPT
        !.view = IF Live(w, inst) THEN [w.view EXCEPT !.loading = TRUE] ELSE w.view,
        !.net = SendAll(w.net, HolidaysEventsCalls, inst, f),
        !.fetches = w.fetches \cup
            {[id |-> f, fn |-> "fetchData", inst |-> inst, cause |-> cause,
              parts |-> [what \in {"holidays", "events"} |-> NotDone]]}]

\* fetchData after the await, both calls fulfilled.
fetchDataFulfilled(v, parts) ==
    [v EXCEPT !.holidays = parts["holidays"].items,
              !.events = parts["events"].items,
              !.error = "",
              !.loading = FALSE]

\* Faulty variant: no finally block, a failed fetch leaves the spinner on.
fetchDataRejectedStillLoading(v) ==
    [v EXCEPT !.error = "Failed to load holidays and events. Please try again."]

\* Faulty variant: the catch block sets no message.
fetchDataRejectedSilently(v) == [v EXCEPT !.loading = FALSE]

\* fetchData after the await, one call rejected: catch and finally.
fetchDataRejected(v) ==
    [v EXCEPT !.error = "Failed to load holidays and events. Please try again.",
              !.loading = FALSE]

\* Faulty variant: the end date is not marked required.
HolidayRequiredFieldsWithoutEndDate == {"name", "start_date"}

\* The fields the browser refuses to submit empty (the inputs marked required).
HolidayRequiredFields == {"name", "start_date", "end_date"}
EventRequiredFields == {"title", "event_date", "event_type"}

\* Faulty variant: the form is closed and the alert shown, the list is not
\* fetched again.
handleCreateHolidayFulfilledNoRefetch(w, inst, created) ==
    LET closed == IF Live(w, inst)
                  THEN [w.view EXCEPT !.showHolidayForm = FALSE,
                                      !.holidayForm = EmptyHolidayForm]
                  ELSE w.view
    IN  [w EXCEPT !.view = closed, !.alert = "Holiday created successfully!"]

\* Faulty variant: a created holiday closes and resets the event form too.
handleCreateHolidayFulfilledClosesBoth(w, inst, created) ==
    LET closed == IF Live(w, inst)
                  THEN [w.view EXCEPT !.showHolidayForm = FALSE,
                                      !.holidayForm = EmptyHolidayForm,
                                      !.showEventForm = FALSE,
                                      !.eventForm = EmptyEventForm]
                  ELSE w.view
        fetched == fetchData([w EXCEPT !.view = closed], inst, created.id)
    IN  [fetched EXCEPT !.alert = "Holiday created successfully!"]

\* handleCreateHoliday after the await, call fulfilled with the created record.
handleCreateHolidayFulfilled(w, inst, created) ==
    LET closed == IF Live(w, inst)
                  THEN [w.view EXCEPT !.showHolidayForm = FALSE,
                                      !.holidayForm = EmptyHolidayForm]
                  ELSE w.view
        fetched == fetchData([w EXCEPT !.view = closed], inst, created.id)
    IN  [fetched EXCEPT !.alert = "Holiday created successfully!"]

\* Faulty variant: the catch block closes the form as well.
handleCreateHolidayRejectedClosesForm(w, inst, resp) ==
    [w EXCEPT !.alert = AlertText(resp, "Failed to create holiday"),
              !.view = IF Live(w, inst)
                       THEN [w.view EXCEPT !.showHolidayForm = FALSE]
                       ELSE w.view]

\* handleCreateHoliday after the await, call rejected: the catch block.
handleCreateHolidayRejected(w, inst, resp) ==
    [w EXCEPT !.alert = AlertText(resp, "Failed to create holiday")]

\* handleCreateEvent, likewise.
handleCreateEventFulfilled(w, inst, created) ==
    LET closed == IF Live(w, inst)
                  THEN [w.view EXCEPT !.showEventForm = FALSE,
                                      !.eventForm = EmptyEventForm]
                  ELSE w.view
        fetched == fetchData([w EXCEPT !.view = closed], inst, created.id)
    IN  [fetched EXCEPT !.alert = "Event created successfully!"]

handleCreateEventRejected(w, inst, resp) ==
    [w EXCEPT !.alert = AlertText(resp, "Failed to create event")]

(***************************************************************************)
(* components/admin/ClassesManagement.jsx                                  *)
(***************************************************************************)
schoolAdminAPI_getTeachers ==
    Config("schoolAdminAPI.getTeachers", "get", <<"admin", "teachers">>, NoBody)

schoolAdminAPI_getSubjects ==
    Config("schoolAdminAPI.getSubjects", "get", <<"admin", "subjects">>, NoBody)

schoolAdminAPI_getClasses ==
    Config("schoolAdminAPI.getClasses", "get", <<"admin", "classes">>, NoBody)

schoolAdminAPI_createClass(classData) ==
    Config("schoolAdminAPI.createClass", "post", <<"admin", "classes">>, classData)

EmptyClassForm ==
    [name |-> "", grade |-> "", subject_id |-> "", teacher_id |-> "", academic_year |-> ""]

\* useState initial values
ClassesManagementInitial(inst) ==
    [kind |-> "ClassesManagement", inst |-> inst,
     classes |-> {}, subjects |-> {}, teachers |-> {}, loading |-> TRUE, error |-> "",
     showCreateForm |-> FALSE, formData |-> EmptyClassForm]

ClassesManagementCalls ==
    << [what |-> "classes", config |-> schoolAdminAPI_getClasses],
       [what |-> "subjects", config |-> schoolAdminAPI_getSubjects],
       [what |-> "teachers", config |-> schoolAdminAPI_getTeachers] >>

\* fetchInitialData, up to its await.
fetchInitialData(w, inst, cause) ==
    LET f == NewFetchId(w.net, w.fetches) IN
    [w EXCEPT
        !.view = IF Live(w, inst) THEN [w.view EXCEPT !.loading = TRUE] ELSE w.view,
        !.net = SendAll(w.net, ClassesManagementCalls, inst, f),
        !.fetches = w.fetches \cup
            {[id |-> f, fn |-> "fetchInitialData", inst |-> inst, cause |-> cause,
              parts |-> [what \in {"classes", "subjects", "teachers"} |-> NotDone]]}]

\* fetchInitialData after the await, all calls fulfilled.
fetchInitialDataFulfilled(v, parts) ==
    [v EXCEPT !.classes = parts["classes"].items,
              !.subjects = parts["subjects"].items,
              !.teachers = parts["teachers"].items,
              !.error = "",
              !.loading = FALSE]

\* Faulty variant: the catch block empties the lists.
fetchInitialDataRejectedClearsLists(v) ==
    [v EXCEPT !.error = "Failed to load classes. Please try again.",
              !.classes = {}, !.subjects = {}, !.teachers = {},
              !.loading = FALSE]

\* fetchInitialData after the await, one call rejected: catch and finally.
fetchInitialDataRejected(v) ==
    [v EXCEPT !.error = "Failed to load classes. Please try again.",
              !.loading = FALSE]

ClassRequiredFields == {"name", "grade", "subject_id", "teacher_id"}

\* The characters of a select value; the ids on offer have one digit.
Chars(s) == IF s = "" THEN <<>> ELSE <<s>>

\* The argument handleCreateClass builds from the form.
ClassData(formData) ==
    [name |-> formData.name,
     grade |-> formData.grade,
     subject_id |-> parseInt(Chars(formData.subject_id)),
     teacher_id |-> parseInt(Chars(formData.teacher_id)),
     academic_year |-> IF formData.academic_year = "" THEN NULL ELSE formData.academic_year]

\* handleCreateClass after the await, call fulfilled.
handleCreateClassFulfilled(w, inst, created) ==
    LET closed == IF Live(w, inst)
                  THEN [w.view EXCEPT !.showCreateForm = FALSE,
                                      !.formData = EmptyClassForm]
                  ELSE w.view
        fetched == fetchInitialData([w EXCEPT !.view = closed], inst, created.id)
    IN  [fetched EXCEPT !.alert = "Class created successfully!"]

\* Faulty variant: the failure handler also closes and clears the form.
handleCreateClassRejectedResetsForm(w, inst, resp) ==
    [w EXCEPT !.alert = AlertText(resp, "Failed to create class"),
              !.view = IF Live(w, inst)
                       THEN [w.view EXCEPT !.showCreateForm = FALSE,
                                           !.formData = EmptyClassForm]
                       ELSE w.view]

\* Faulty variant: the failure handler loads the lists again.
handleCreateClassRejectedRefetches(w, inst, resp) ==
    [fetchInitialData(w, inst, 0) EXCEPT
        !.alert = AlertText(resp, "Failed to create class")]

\* handleCreateClass after the await, call rejected: the catch block.
handleCreateClassRejected(w, inst, resp) ==
    [w EXCEPT !.alert = AlertText(resp, "Failed to create class")]

(***************************************************************************)
(* The continuation that waits for a request, by the function that made it.*)
(***************************************************************************)
Fulfilled(fn, v, parts) ==
    IF fn = "fetchData"
    THEN fetchDataFulfilled(v, parts)
    ELSE fetchInitialDataFulfilled(v, parts)

Caught(fn, v) ==
    IF fn = "fetchData" THEN fetchDataRejected(v) ELSE fetchInitialDataRejected(v)

CreateHandlerFulfilled(what, w, inst, created) ==
    CASE what = "holidays" -> handleCreateHolidayFulfilled(w, inst, created)
      [] what = "events" -> handleCreateEventFulfilled(w, inst, created)
      [] what = "classes" -> handleCreateClassFulfilled(w, inst, created)

CreateHandlerRejected(what, w, inst, resp) ==
    CASE what = "holidays" -> handleCreateHolidayRejected(w, inst, resp)
      [] what = "events" -> handleCreateEventRejected(w, inst, resp)
      [] what = "classes" -> handleCreateClassRejected(w, inst, resp)

CreatedEvent(what) ==
    CASE what = "holidays" -> "holidayCreated"
      [] what = "events" -> "eventCreated"
      [] what = "classes" -> "classCreated"

CreateFailedEvent(what) ==
    CASE what = "holidays" -> "holidayCreateFailed"
      [] what = "events" -> "eventCreateFailed"
      [] what = "classes" -> "classCreateFailed"

(***************************************************************************)
(* Steps shared by the view specifications.  A view request is answered by *)
(* the backend first (a create is committed there) and delivered to the    *)
(* client later, so that responses can overtake one another.               *)
(***************************************************************************)
Commit(w) ==
    /\ view' = w.view
    /\ net' = w.net
    /\ fetches' = w.fetches
    /\ alertMsg' = w.alert

Refusal(what) ==
    IF what = "classes" THEN "Teacher not found" ELSE "End date must be after start date"

ServerHandle(id) ==
    /\ id \in DOMAIN net
    /\ net[id].owner.kind \in {"get", "create"}
    /\ ~net[id].answered
    /\ LET req == net[id]
           what == req.owner.what
           answers == IF req.owner.kind = "get"
                      THEN GetAnswers(req.config, server[what])
                      ELSE CreateAnswers(req.config,
                                         Stored(server[what], req.config.data),
                                         Refusal(what))
       IN  \E resp \in answers :
              /\ net' = [net EXCEPT ![id].answered = TRUE, ![id].resp = resp]
              /\ server' = IF resp.ok /\ req.owner.kind = "create"
                           THEN [server EXCEPT ![what] = @ \cup {resp.data}]
                           ELSE server
    /\ lastEvent' = "served"
    /\ UNCHANGED <<authVars, pathname, reloadPending, outcome, alertMsg, view, fetches, quota>>

\* One call of a Promise.all is fulfilled.  The invocation goes on when all
\* are; a call of an invocation that was already rejected has nobody waiting.
GetFulfilled(id) ==
    /\ id \in DOMAIN net
    /\ net[id].owner.kind = "get"
    /\ net[id].answered
    /\ net[id].resp.ok
    /\ net' = Drop(net, id)
    /\ LET o == net[id].owner
           pending == {f \in fetches : f.id = o.fetch}
       IN  IF pending = {}
           THEN /\ lastEvent' = "ignored"
                /\ UNCHANGED <<view, fetches, outcome>>
           ELSE LET f == CHOOSE x \in pending : TRUE
                    parts == [f.parts EXCEPT ![o.what] = Done(net[id].resp.data.items)]
                IN  IF \A p \in DOMAIN parts : parts[p].done
                    THEN /\ view' = IF Live(World, f.inst)
                                    THEN Fulfilled(f.fn, view, parts)
                                    ELSE view
                         /\ fetches' = fetches \ {f}
                         /\ outcome' = Resolved(f.fn,
                                                [cause |-> f.cause, inst |-> f.inst])
                         /\ lastEvent' = "fetched"
                    ELSE /\ fetches' = (fetches \ {f}) \cup {[f EXCEPT !.parts = parts]}
                         /\ lastEvent' = "partial"
                         /\ UNCHANGED <<view, outcome>>
    /\ UNCHANGED <<authVars, pathname, reloadPending, alertMsg, server, quota>>

\* One call of a Promise.all is rejected: the response interceptor runs, then
\* the invocation's catch and finally, unless it was rejected before.
GetRejected(id) ==
    /\ id \in DOMAIN net
    /\ net[id].owner.kind = "get"
    /\ net[id].answered
    /\ ~net[id].resp.ok
    /\ RunErrorInterceptor(net[id].resp)
    /\ net' = Drop(net, id)
    /\ LET pending == {f \in fetches : f.id = net[id].owner.fetch}
       IN  IF pending = {}
           THEN /\ lastEvent' = "ignored"
                /\ outcome' = Rejected(net[id].config.fn, net[id].resp)
                /\ UNCHANGED <<view, fetches>>
           ELSE LET f == CHOOSE x \in pending : TRUE
                IN  /\ view' = IF Live(World, f.inst) THEN Caught(f.fn, view) ELSE view
                    /\ fetches' = fetches \ {f}
                    /\ outcome' = [Rejected(f.fn, net[id].resp) EXCEPT
                                       !.value = [cause |-> f.cause, inst |-> f.inst]]
                    /\ lastEvent' = "fetchFailed"
    /\ UNCHANGED <<alertMsg, server, quota>>

\* The create call of a submit handler is fulfilled.
CreateFulfilled(id, what) ==
    /\ id \in DOMAIN net
    /\ net[id].owner.kind = "create"
    /\ net[id].owner.what = what
    /\ net[id].answered
    /\ net[id].resp.ok
    /\ Commit(CreateHandlerFulfilled(what, [World EXCEPT !.net = Drop(net, id)],
                                     net[id].owner.inst, net[id].resp.data))
    /\ outcome' = Resolved(net[id].config.fn, net[id].resp.data)
    /\ lastEvent' = CreatedEvent(what)
    /\ UNCHANGED <<authVars, pathname, reloadPending, server, quota>>

\* The create call of a submit handler is rejected.
CreateRejected(id, what) ==
    /\ id \in DOMAIN net
    /\ net[id].owner.kind = "create"
    /\ net[id].owner.what = what
    /\ net[id].answered
    /\ ~net[id].resp.ok
    /\ RunErrorInterceptor(net[id].resp)
    /\ Commit(CreateHandlerRejected(what, [World EXCEPT !.net = Drop(net, id)],
                                    net[id].owner.inst, net[id].resp))
    /\ outcome' = Rejected(net[id].config.fn, net[id].resp)
    /\ lastEvent' = CreateFailedEvent(what)
    /\ UNCHANGED <<server, quota>>

\* Faulty variant: leaving the view aborts its pending requests.
UnmountAborting ==
    /\ view.kind # "none"
    /\ view' = [kind |-> "none", inst |-> view.inst]
    /\ net' = EmptyNet
    /\ fetches' = {}
    /\ lastEvent' = "unmount"
    /\ UNCHANGED <<authVars, pathname, reloadPending, outcome, alertMsg, server, quota>>

\* The user leaves the view while the session lasts.
Unmount ==
    /\ view.kind # "none"
    /\ view' = [kind |-> "none", inst |-> view.inst]
    /\ lastEvent' = "unmount"
    /\ UNCHANGED <<authVars, pathname, reloadPending, net, outcome, alertMsg,
                   server, fetches, quota>>

\* A signed-in school administrator, the view's route about to render.
InitView(path) ==
    /\ lsToken = <<1>>
    /\ lsUser = "ADMIN"
    /\ ctxUser = "ADMIN"
    /\ pathname = path
    /\ reloadPending = FALSE
    /\ net = EmptyNet
    /\ outcome = NoOutcome
    /\ alertMsg = NULL
    /\ lastEvent = "init"
    /\ view = NoView
    /\ fetches = {}
    /\ quota = NoQuota

\* The form passes the browser's validation of its required fields.
Valid(form, required) == \A f \in required : form[f] # ""

(***************************************************************************)
(* HolidaysEvents: the steps (specification SpecHolidays).                 *)
(***************************************************************************)
HolidaysEventsPath == <<"dashboard", "holidays-events">>

\* The component renders only a spinner while loading.
HolidaysEventsShown == view.kind = "HolidaysEvents" /\ ~view.loading

HolidayInputs ==
    {<<"name", "Eid">>, <<"name", "">>, <<"start_date", "2025-03-31">>,
     <<"end_date", "2025-04-01">>, <<"end_date", "">>}

MountHolidaysEvents ==
    /\ view.kind = "none"
    /\ pathname = HolidaysEventsPath
    /\ quota.mounts < MaxMounts
    /\ Commit(fetchData([World EXCEPT !.view = HolidaysEventsInitial(quota.mounts + 1)],
                        quota.mounts + 1, 0))
    /\ quota' = [quota EXCEPT !.mounts = @ + 1]
    /\ lastEvent' = "mount"
    /\ UNCHANGED <<authVars, pathname, reloadPending, outcome, server>>

ToggleHolidayForm ==
    /\ HolidaysEventsShown
    /\ view' = [view EXCEPT !.showHolidayForm = ~view.showHolidayForm]
    /\ lastEvent' = "edit"
    /\ UNCHANGED <<authVars, pathname, reloadPending, net, outcome, alertMsg,
                   server, fetches, quota>>

CancelHolidayForm ==
    /\ HolidaysEventsShown
    /\ view.showHolidayForm
    /\ view' = [view EXCEPT !.showHolidayForm = FALSE]
    /\ lastEvent' = "edit"
    /\ UNCHANGED <<authVars, pathname, reloadPending, net, outcome, alertMsg,
                   server, fetches, quota>>

ChangeHolidayField(field, value) ==
    /\ HolidaysEventsShown
    /\ view.showHolidayForm
    /\ view' = [view EXCEPT !.holidayForm[field] = value]
    /\ lastEvent' = "edit"
    /\ UNCHANGED <<authVars, pathname, reloadPending, net, outcome, alertMsg,
                   server, fetches, quota>>

\* Faulty variant: the form is closed as soon as it is submitted.
SubmitHolidayFormClosing ==
    /\ HolidaysEventsShown
    /\ view.showHolidayForm
    /\ IF Valid(view.holidayForm, HolidayRequiredFields)
       THEN /\ quota.submits < MaxSubmits
            /\ net' = Put(net, FreeId,
                          Outgoing(schoolAdminAPI_createHoliday(view.holidayForm),
                                   CreateOwner(view.inst, "holidays")))
            /\ quota' = [quota EXCEPT !.submits = @ + 1]
            /\ view' = [view EXCEPT !.showHolidayForm = FALSE]
            /\ lastEvent' = "holidaySubmitted"
       ELSE /\ lastEvent' = "holidayInvalid"
            /\ UNCHANGED <<net, quota, view>>
    /\ UNCHANGED <<authVars, pathname, reloadPending, outcome, alertMsg,
                   server, fetches>>

\* The submit button: the browser validates, then onSubmit = handleCreateHoliday
\* runs up to its await.
SubmitHolidayForm ==
    /\ HolidaysEventsShown
    /\ view.showHolidayForm
    /\ IF Valid(view.holidayForm, HolidayRequiredFields)
       THEN /\ quota.submits < MaxSubmits
            /\ net' = Put(net, FreeId,
                          Outgoing(schoolAdminAPI_createHoliday(view.holidayForm),
                                   CreateOwner(view.inst, "holidays")))
            /\ quota' = [quota EXCEPT !.submits = @ + 1]
            /\ lastEvent' = "holidaySubmitted"
       ELSE /\ lastEvent' = "holidayInvalid"
            /\ UNCHANGED <<net, quota>>
    /\ UNCHANGED <<authVars, pathname, reloadPending, outcome, alertMsg, view,
                   server, fetches>>

EventInputs ==
    {<<"title", "Sports day">>, <<"event_date", "2025-05-01">>, <<"event_type", "Sports">>}

ToggleEventForm ==
    /\ HolidaysEventsShown
    /\ view' = [view EXCEPT !.showEventForm = ~view.showEventForm]
    /\ lastEvent' = "edit"
    /\ UNCHANGED <<authVars, pathname, reloadPending, net, outcome, alertMsg,
                   server, fetches, quota>>

ChangeEventField(field, value) ==
    /\ HolidaysEventsShown
    /\ view.showEventForm
    /\ view' = [view EXCEPT !.eventForm[field] = value]
    /\ lastEvent' = "edit"
    /\ UNCHANGED <<authVars, pathname, reloadPending, net, outcome, alertMsg,
                   server, fetches, quota>>

CancelEventForm ==
    /\ HolidaysEventsShown
    /\ view.showEventForm
    /\ view' = [view EXCEPT !.showEventForm = FALSE]
    /\ lastEvent' = "edit"
    /\ UNCHANGED <<authVars, pathname, reloadPending, net, outcome, alertMsg,
                   server, fetches, quota>>

SubmitEventForm ==
    /\ HolidaysEventsShown
    /\ view.showEventForm
    /\ IF Valid(view.eventForm, EventRequiredFields)
       THEN /\ quota.submits < MaxSubmits
            /\ net' = Put(net, FreeId,
                          Outgoing(schoolAdminAPI_createEvent(view.eventForm),
                                   CreateOwner(view.inst, "events")))
            /\ quota' = [quota EXCEPT !.submits = @ + 1]
            /\ lastEvent' = "eventSubmitted"
       ELSE /\ lastEvent' = "eventInvalid"
            /\ UNCHANGED <<net, quota>>
    /\ UNCHANGED <<authVars, pathname, reloadPending, outcome, alertMsg, view,
                   server, fetches>>

NextHolidays ==
    \/ MountHolidaysEvents
    \/ Unmount
    \/ ToggleHolidayForm
    \/ CancelHolidayForm
    \/ \E input \in HolidayInputs : ChangeHolidayField(input[1], input[2])
    \/ SubmitHolidayForm
    \/ \E id \in DOMAIN net : ServerHandle(id)
    \/ \E id \in DOMAIN net : GetFulfilled(id)
    \/ \E id \in DOMAIN net : GetRejected(id)
    \/ \E id \in DOMAIN net : CreateFulfilled(id, "holidays")
    \/ \E id \in DOMAIN net : CreateRejected(id, "holidays")
    \/ Reload

\* The view with the holiday form in use.
SpecHolidays ==
    /\ InitView(HolidaysEventsPath)
    /\ server = EmptyServer
    /\ [][NextHolidays]_vars

\* The backend answers every request, and the browser delivers every answer and
\* carries out the navigation it was told; the user owes nothing.
Serve == \E id \in DOMAIN net : ServerHandle(id)
DeliverHolidays ==
    \E id \in DOMAIN net :
        \/ GetFulfilled(id)
        \/ GetRejected(id)
        \/ CreateFulfilled(id, "holidays")
        \/ CreateRejected(id, "holidays")

FairSpecHolidays ==
    /\ SpecHolidays
    /\ WF_vars(Serve)
    /\ WF_vars(DeliverHolidays)
    /\ WF_vars(Reload)

NextHolidaysEvents ==
    \/ NextHolidays
    \/ ToggleEventForm
    \/ CancelEventForm
    \/ \E input \in EventInputs : ChangeEventField(input[1], input[2])
    \/ SubmitEventForm
    \/ \E id \in DOMAIN net : CreateFulfilled(id, "events")
    \/ \E id \in DOMAIN net : CreateRejected(id, "events")

(***************************************************************************)
(* Specification SpecRefetchRace: the holiday form submitted twice in a    *)
(* row, before the first create call has come back (nothing disables the   *)
(* submit button while handleCreateHoliday awaits).  Only the runs in which*)
(* no failed response is delivered to the client.                          *)
(***************************************************************************)
CreatePending(what) ==
    \E id \in DOMAIN net : net[id].owner = CreateOwner(view.inst, what)

\* The submit button pressed again: onSubmit = handleCreateHoliday runs once
\* more, up to its await.
ResubmitHolidayForm ==
    /\ HolidaysEventsShown
    /\ view.showHolidayForm
    /\ Valid(view.holidayForm, HolidayRequiredFields)
    /\ CreatePending("holidays")
    /\ quota.resubmits < MaxResubmits
    /\ net' = Put(net, FreeId,
                  Outgoing(schoolAdminAPI_createHoliday(view.holidayForm),
                           CreateOwner(view.inst, "holidays")))
    /\ quota' = [quota EXCEPT !.resubmits = @ + 1]
    /\ lastEvent' = "holidaySubmitted"
    /\ UNCHANGED <<authVars, pathname, reloadPending, outcome, alertMsg, view,
                   server, fetches>>

NextRefetchRace ==
    \/ MountHolidaysEvents
    \/ ToggleHolidayForm
    \/ \E input \in HolidayInputs : ChangeHolidayField(input[1], input[2])
    \/ SubmitHolidayForm
    \/ ResubmitHolidayForm
    \/ \E id \in DOMAIN net : ServerHandle(id)
    \/ \E id \in DOMAIN net : GetFulfilled(id)
    \/ \E id \in DOMAIN net : CreateFulfilled(id, "holidays")

SpecRefetchRace ==
    /\ InitView(HolidaysEventsPath)
    /\ server = EmptyServer
    /\ [][NextRefetchRace]_vars

\* The view with both forms in use.
SpecHolidaysEvents ==
    /\ InitView(HolidaysEventsPath)
    /\ server = EmptyServer
    /\ [][NextHolidaysEvents]_vars

(***************************************************************************)
(* ClassesManagement: the steps (specification SpecClasses).               *)
(***************************************************************************)
ClassesPath == <<"dashboard", "classes">>

ClassesManagementShown == view.kind = "ClassesManagement" /\ ~view.loading

\* What the school has on record when the view opens.
SchoolServer ==
    [EmptyServer EXCEPT !.subjects = {[id |-> 1, name |-> "Mathematics"]},
                        !.teachers = {[id |-> 2, name |-> "Ms. Rao"]}]

\* What the user may type; a select offers the ids of the loaded records.
ClassInputs ==
    IF view.kind = "ClassesManagement"
    THEN {<<"name", "5A">>, <<"grade", "5">>, <<"academic_year", "2025-26">>}
         \cup {<<"subject_id", ToString(r.id)>> : r \in view.subjects}
         \cup {<<"teacher_id", ToString(r.id)>> : r \in view.teachers}
    ELSE {}

MountClassesManagement ==
    /\ view.kind = "none"
    /\ pathname = ClassesPath
    /\ quota.mounts < MaxMounts
    /\ Commit(fetchInitialData(
                  [World EXCEPT !.view = ClassesManagementInitial(quota.mounts + 1)],
                  quota.mounts + 1, 0))
    /\ quota' = [quota EXCEPT !.mounts = @ + 1]
    /\ lastEvent' = "mount"
    /\ UNCHANGED <<authVars, pathname, reloadPending, outcome, server>>

ToggleCreateForm ==
    /\ ClassesManagementShown
    /\ view' = [view EXCEPT !.showCreateForm = ~view.showCreateForm]
    /\ lastEvent' = "edit"
    /\ UNCHANGED <<authVars, pathname, reloadPending, net, outcome, alertMsg,
                   server, fetches, quota>>

CancelCreateForm ==
    /\ ClassesManagementShown
    /\ view.showCreateForm
    /\ view' = [view EXCEPT !.showCreateForm = FALSE]
    /\ lastEvent' = "edit"
    /\ UNCHANGED <<authVars, pathname, reloadPending, net, outcome, alertMsg,
                   server, fetches, quota>>

ChangeClassField(field, value) ==
    /\ ClassesManagementShown
    /\ view.showCreateForm
    /\ view' = [view EXCEPT !.formData[field] = value]
    /\ lastEvent' = "edit"
    /\ UNCHANGED <<authVars, pathname, reloadPending, net, outcome, alertMsg,
                   server, fetches, quota>>

\* The submit button: the browser validates, then onSubmit = handleCreateClass
\* runs up to its await.
SubmitCreateForm ==
    /\ ClassesManagementShown
    /\ view.showCreateForm
    /\ IF Valid(view.formData, ClassRequiredFields)
       THEN /\ quota.submits < MaxSubmits
            /\ net' = Put(net, FreeId,
                          Outgoing(schoolAdminAPI_createClass(ClassData(view.formData)),
                                   CreateOwner(view.inst, "classes")))
            /\ quota' = [quota EXCEPT !.submits = @ + 1]
            /\ lastEvent' = "classSubmitted"
       ELSE /\ lastEvent' = "classInvalid"
            /\ UNCHANGED <<net, quota>>
    /\ UNCHANGED <<authVars, pathname, reloadPending, outcome, alertMsg, view,
                   server, fetches>>

NextClasses ==
    \/ MountClassesManagement
    \/ Unmount
    \/ ToggleCreateForm
    \/ CancelCreateForm
    \/ \E input \in ClassInputs : ChangeClassField(input[1], input[2])
    \/ SubmitCreateForm
    \/ \E id \in DOMAIN net : ServerHandle(id)
    \/ \E id \in DOMAIN net : GetFulfilled(id)
    \/ \E id \in DOMAIN net : GetRejected(id)
    \/ \E id \in DOMAIN net : CreateFulfilled(id, "classes")
    \/ \E id \in DOMAIN net : CreateRejected(id, "classes")
    \/ Reload

SpecClasses ==
    /\ InitView(ClassesPath)
    /\ server = SchoolServer
    /\ [][NextClasses]_vars

(***************************************************************************)
(* Properties.                                                             *)
(***************************************************************************)
Status401(resp) == resp.hasResponse /\ resp.status = 401

\* C1: a call that was just rejected with status 401, whichever API function
\* made it, leaves no token and no user in storage and the location at /login
\* (the document about to be replaced), and the caller has the rejection.
C1_Unauthorized_ClearsSession ==
    (lastEvent = "rejected" /\ Status401(outcome.error)) =>
        /\ lsToken = NoToken
        /\ lsUser = NULL
        /\ pathname = LoginPath
        /\ reloadPending
        /\ outcome.kind = "rejected"

\* C1 witness: the login call itself was answered 401 while a user was logged
\* in; the stored credentials are gone although the context still holds the user.
C1_Witness ==
    /\ lastEvent = "rejected"
    /\ outcome.fn = "authAPI.login"
    /\ Status401(outcome.error)
    /\ ctxUser # NULL
    /\ lsUser = NULL
    /\ lsToken = NoToken
    /\ pathname = LoginPath

\* C2: under /dashboard a viewer whose role is not SUPER_ADMIN gets the
\* access-denied view: no sidebar, no header, no children, at every URL.
C2_NonSuperAdmin_AccessDenied ==
    (UnderDashboard /\ ctxUser # "SUPER_ADMIN") =>
        /\ Screen.screen = "AccessDenied"
        /\ Screen.sidebar = {}
        /\ ~Screen.header
        /\ Screen.children = "none"

C2_Witness ==
    /\ ctxUser = "ADMIN"
    /\ pathname = <<"dashboard", "teachers">>
    /\ Screen.screen = "AccessDenied"

\* The route set the specification fixes for each of the three routed roles.
RoutedRoles == {"SUPER_ADMIN", "ADMIN", "TEACHER"}
FixedTree(role) ==
    CASE role = "SUPER_ADMIN" -> SuperAdminRoutes
      [] role = "ADMIN" -> AdminRoutes
      [] role = "TEACHER" -> TeacherRoutes
RouteSet(tree) == {tree[i] : i \in 1..Len(tree)}
Elements(tree) == {tree[i].element : i \in 1..Len(tree)}

\* C3: for a user of role R in {SUPER_ADMIN, ADMIN, TEACHER} the Dashboard
\* mounts exactly R's routes (path -> component), none of another role's
\* routes, and the URL never resolves to a component of another role's set.
C3_RoleMountsOwnRoutes ==
    \A R \in RoutedRoles :
        ctxUser = R =>
            /\ RouteSet(RouteTree(ctxUser)) = RouteSet(FixedTree(R))
            /\ \A R2 \in RoutedRoles \ {R} :
                  /\ RouteSet(RouteTree(ctxUser)) \cap RouteSet(FixedTree(R2)) = {}
                  /\ UnderDashboard =>
                        Routes(RouteTree(ctxUser), Tail(pathname)) \notin Elements(FixedTree(R2))

C3_Witness ==
    /\ ctxUser = "TEACHER"
    /\ pathname = <<"dashboard", "classes", "5", "students">>
    /\ Routes(RouteTree(ctxUser), Tail(pathname)) = "MyStudents"

\* C4 (as claimed): at /dashboard each routed role sees the index page of its
\* own tree.
C4_EachRoleSeesOwnPages ==
    (pathname = DashboardPath /\ ctxUser \in RoutedRoles) =>
        Screen.children = FixedTree(ctxUser)[1].element

\* C5: a request that leaves the client carries Authorization: Bearer <token>
\* exactly when a token is stored at that moment, with exactly that token.
C5_BearerIffTokenStored ==
    [][\A id \in DOMAIN net' \ DOMAIN net :
          LET h == net'[id].config.Authorization IN
          IF lsToken = NoToken
          THEN h = <<>>
          ELSE Len(h) = 2 /\ h[1] = "Bearer" /\ <<h[2]>> = lsToken]_vars

\* C5 witness: a request sent under token 1 is still in flight, carrying
\* token 1, after a later login stored token 2.
C5_Witness ==
    /\ lsToken = <<2>>
    /\ \E id \in InFlight : net[id].config.Authorization = <<"Bearer", 1>>

\* C6 (as claimed): the persisted user changes only in a login or logout step.
C6_RoleChangesOnlyByLoginLogout ==
    [][lsUser' # lsUser => lastEvent' \in {"login", "logout"}]_vars

\* C6 (amended): the persisted user changes only in a login step, in a logout
\* step (cleared, location /login) or when the response interceptor handled a
\* 401 (cleared, location /login).
C6_RoleChangesOnlyByLoginLogout401 ==
    [][lsUser' # lsUser =>
          \/ lastEvent' = "login" /\ lsUser' \in UserRoles
          \/ lastEvent' = "logout" /\ lsUser' = NULL /\ pathname' = LoginPath
          \/ /\ lastEvent' = "rejected"
             /\ Status401(outcome'.error)
             /\ lsUser' = NULL
             /\ pathname' = LoginPath]_vars

\* C6 witness: a 401 has just removed the persisted user of a logged-in session.
C6_Witness ==
    /\ lastEvent = "rejected"
    /\ Status401(outcome.error)
    /\ outcome.fn # "authAPI.login"
    /\ lsUser = NULL
    /\ ctxUser \in UserRoles

CreateHolidayRequests(n) ==
    {id \in DOMAIN n : n[id].config.fn = "schoolAdminAPI.createHoliday"}

\* The holiday with this id is on display.
HolidayShown(c) ==
    /\ view.kind = "HolidaysEvents"
    /\ ~view.loading
    /\ \E h \in view.holidays : h.id = c

\* The invocation of fetchData that followed the creation of holiday c ended
\* in its catch block.
RefetchFailed(c) ==
    /\ outcome.fn = "fetchData"
    /\ outcome.kind = "rejected"
    /\ outcome.value.cause = c

\* Mounted view i is waiting for the invocation of fetchData that its handler
\* made after holiday c was created.
RefetchPending(c, i) ==
    /\ Live(World, i)
    /\ \E f \in fetches : f.cause = c /\ f.inst = i

HolidayIds == 1..MaxSubmits
Instances == 1..MaxMounts

\* C7 as stated: after a successful createHoliday call the displayed holiday list
\* eventually contains the created holiday (unless the user leaves the view).
C7_CreatedHolidayEventuallyShown ==
    \A c \in HolidayIds, i \in Instances :
        RefetchPending(c, i) ~> (HolidayShown(c) \/ ~Live(World, i))

\* C7 amended: when a createHoliday call is fulfilled, the handler calls
\* fetchData again (getHolidays and getEvents leave, no navigation is started);
\* when that invocation is fulfilled in the mounted view the displayed list
\* contains the created holiday; when it is rejected the list is left as it was
\* and the load error is set; and the invocation ends: in the list being shown,
\* in its catch block, or with the view gone.
C7_CreatedHolidayShownIfRefetchSucceeds ==
    /\ [][lastEvent' = "holidayCreated" =>
            /\ \E f \in fetches' \ fetches :
                 /\ f.cause = outcome'.value.id
                 /\ \A what \in {"holidays", "events"} :
                      \E id \in DOMAIN net' :
                          /\ net'[id].owner = GetOwner(f.inst, f.id, what)
                          /\ ~net'[id].answered
            /\ pathname' = pathname
            /\ reloadPending' = reloadPending]_vars
    /\ [](lastEvent = "fetched" /\ outcome.value.cause # 0 /\ Live(World, outcome.value.inst)
            => HolidayShown(outcome.value.cause))
    /\ [][lastEvent' = "fetchFailed" /\ Live(World, outcome'.value.inst) =>
            /\ view'.holidays = view.holidays
            /\ view'.error = "Failed to load holidays and events. Please try again."]_vars
    /\ \A c \in HolidayIds, i \in Instances :
          RefetchPending(c, i) ~>
              (HolidayShown(c) \/ RefetchFailed(c) \/ ~Live(World, i))

C7_Witness ==
    /\ lastEvent = "fetched"
    /\ outcome.value.cause = 1
    /\ HolidayShown(1)
    /\ \E h \in view.holidays : h.name = "Eid" /\ h \in server.holidays
    /\ ~reloadPending

\* C9: a submit of the holiday form while name, start_date or end_date is empty
\* makes no createHoliday request (and stores no holiday): no step taken from
\* such a form adds one to the requests in flight.
C9_EmptyRequiredField_NoRequest ==
    [][(/\ view.kind = "HolidaysEvents"
        /\ \E f \in {"name", "start_date", "end_date"} : view.holidayForm[f] = "")
       => /\ CreateHolidayRequests(net') \subseteq CreateHolidayRequests(net)
          /\ \A id \in CreateHolidayRequests(net') : net'[id].config = net[id].config
          /\ (lastEvent' = "holidayInvalid" => UNCHANGED <<net, server, view, fetches>>)]_vars

C9_Witness ==
    /\ lastEvent = "holidayInvalid"
    /\ view.kind = "HolidaysEvents"
    /\ view.showHolidayForm
    /\ view.holidayForm.name = "Eid"
    /\ view.holidayForm.start_date # ""
    /\ view.holidayForm.end_date = ""
    /\ CreateHolidayRequests(net) = {}
    /\ server.holidays = {}

\* The failed call came with a detail message of the server.
DetailProvided(resp) == resp.hasResponse /\ resp.detail \notin {NoDetail, ""}

\* C8 as stated: when a createClass call fails with a server-provided detail, the
\* alert shows exactly that detail, and the form stays open with every entered
\* value: the handler leaves the view as it is and the page holding the form is
\* not being left.
C8_FailedCreateClass_KeepsForm ==
    [][lastEvent' = "classCreateFailed" /\ DetailProvided(outcome'.error) =>
          /\ alertMsg' = outcome'.error.detail
          /\ view' = view
          /\ ~reloadPending']_vars

\* C8 amended: when a createClass call fails with a server-provided detail, the
\* alert shows exactly that detail and the handler leaves the form open with
\* every entered value; when the status is 401 the response interceptor has also
\* removed the session and started the navigation to /login, whose page load
\* discards the form.
C8_FailedCreateClass_KeepsFormUnless401 ==
    [][lastEvent' = "classCreateFailed" /\ DetailProvided(outcome'.error) =>
          /\ alertMsg' = outcome'.error.detail
          /\ view' = view
          /\ reloadPending' = (reloadPending \/ Status401(outcome'.error))
          /\ Status401(outcome'.error) =>
                lsToken' = NoToken /\ lsUser' = NULL /\ pathname' = LoginPath]_vars

C8_Witness ==
    /\ lastEvent = "classCreateFailed"
    /\ outcome.error.status = 400
    /\ alertMsg = "Teacher not found"
    /\ view.kind = "ClassesManagement"
    /\ view.showCreateForm
    /\ view.formData.name = "5A"
    /\ view.formData.subject_id = "1"
    /\ view.formData.teacher_id = "2"
    /\ ~reloadPending

\* A step writes the persisted pair or starts a navigation to /login.
SessionWritten ==
    \/ lsToken' # lsToken
    \/ lsUser' # lsUser
    \/ pathname' = LoginPath /\ pathname # LoginPath
    \/ reloadPending' /\ ~reloadPending

\* The labels of the steps in which a rejected response reaches the client.
RejectionEvents ==
    {"rejected", "fetchFailed", "ignored",
     "holidayCreateFailed", "eventCreateFailed", "classCreateFailed"}

\* C11: the stored token and user are written, and a navigation to /login is
\* started, only by a login, by a logout or by the handling of a response with
\* status 401; sending a request, a fulfilled response, a failure with another
\* status or without a response, and the handlers of the views leave them alone.
C11_SessionWrittenOnlyByLoginLogout401 ==
    [][SessionWritten =>
          \/ lastEvent' = "login"
          \/ lastEvent' = "logout"
          \/ /\ lastEvent' \in RejectionEvents
             /\ outcome'.kind = "rejected"
             /\ Status401(outcome'.error)]_vars

\* C11 witness: a call of a signed-in session was just refused with 403 while
\* another request is in flight; token, user and location are as before.
C11_Witness ==
    /\ lastEvent = "rejected"
    /\ outcome.error.status = 403
    /\ lsToken \in Tokens
    /\ lsUser \in UserRoles
    /\ pathname = DashboardPath
    /\ ~reloadPending
    /\ InFlight # {}

\* The requests a step puts in flight.
Sent ==
    {id \in DOMAIN net' :
        /\ ~net'[id].answered
        /\ (id \notin DOMAIN net \/ net[id] # net'[id])}

SubmitEvents == {"holidaySubmitted", "eventSubmitted", "classSubmitted"}
CreatedEvents == {"holidayCreated", "eventCreated", "classCreated"}

\* C12: nothing is retried.  A submit puts exactly one request in flight, the
\* create call; a step in which a rejected response is handled (a failed create,
\* a failed fetch) puts none in flight; and requests leave only in a mount, in a
\* submit and in the refetch after a fulfilled create.
C12_NoAutomaticRetry ==
    [][/\ lastEvent' \in SubmitEvents =>
            /\ Cardinality(Sent) = 1
            /\ \A id \in Sent : net'[id].owner.kind = "create"
       /\ lastEvent' \in RejectionEvents => Sent = {}
       /\ Sent # {} => lastEvent' \in {"mount"} \cup SubmitEvents \cup CreatedEvents
       /\ \A id \in Sent :
             net'[id].owner.kind = "create" => lastEvent' \in SubmitEvents]_vars

\* C12 witness: the one create call of the one submit was refused with 400; no
\* request is in flight and nothing was stored.
C12_Witness ==
    /\ lastEvent = "classCreateFailed"
    /\ outcome.error.status = 400
    /\ quota.submits = 1
    /\ net = EmptyNet
    /\ server.classes = {}
    /\ view.kind = "ClassesManagement"

\* The request whose response a step hands to the caller.
Settled == DOMAIN net \ DOMAIN net'

\* The function threw the error of its HTTP call.
ThrewHttpError(id) ==
    /\ outcome'.kind = "rejected"
    /\ outcome'.fn = net[id].config.fn
    /\ \E resp \in BackendAnswers(net[id].config) : ~resp.ok /\ outcome'.error = resp

\* The function returned the body of the response to its HTTP call.
ReturnedBody(id) ==
    /\ outcome'.kind = "resolved"
    /\ outcome'.fn = net[id].config.fn
    /\ \E resp \in BackendAnswers(net[id].config) : resp.ok /\ outcome'.value = resp.data

DiscardingDeletes == {"schoolsAPI.delete", "adminsAPI.delete"}

\* C13 as stated: every API function returns the body of the response to its
\* HTTP call or throws the error of that call.
C13_ReturnsBodyOrThrows ==
    [][lastEvent' \in {"login", "resolved", "rejected"} =>
          \A id \in Settled : ReturnedBody(id) \/ ThrewHttpError(id)]_vars

\* What the code does: every API function returns the body of the response to
\* its HTTP call or throws the error of that call, except schoolsAPI.delete and
\* adminsAPI.delete, which return true when the call succeeded, whatever the
\* body (the delete functions of schoolAdminAPI return the body).
ReturnsBodyOrThrowsOrTrue ==
    [][lastEvent' \in {"login", "resolved", "rejected"} =>
          /\ Settled # {}
          /\ \A id \in Settled :
                \/ ThrewHttpError(id)
                \/ /\ net[id].config.fn \notin DiscardingDeletes
                   /\ ReturnedBody(id)
                \/ /\ net[id].config.fn \in DiscardingDeletes
                   /\ outcome' = Resolved(net[id].config.fn, [true |-> TRUE])]_vars

\* adminsAPI.delete has returned true, which is no body the backend sent.
DeleteReturnedTrue ==
    /\ lastEvent = "resolved"
    /\ outcome.fn = "adminsAPI.delete"
    /\ outcome.value = [true |-> TRUE]
    /\ outcome.value \notin {r.data : r \in BackendAnswers(RequestInterceptor(adminsAPI_delete("3"), lsToken))}

Paths(tree) == {tree[i].path : i \in 1..Len(tree)}

\* The role states whose tree the Dashboard mounts for this user.
RoleStates(user) == {R \in RoutedRoles : RouteTree(user) = FixedTree(R)}

\* C14 as stated: each user is in exactly one of the three role states, and no
\* route is mounted in the trees of two roles: the trees have no mapping, no
\* component and no path in common.
C14_RoleTreesShareNoRoute ==
    /\ Cardinality(RoleStates(ctxUser)) = 1
    /\ \A R1, R2 \in RoutedRoles :
          R1 # R2 =>
              /\ RouteSet(FixedTree(R1)) \cap RouteSet(FixedTree(R2)) = {}
              /\ Elements(FixedTree(R1)) \cap Elements(FixedTree(R2)) = {}
              /\ Paths(FixedTree(R1)) \cap Paths(FixedTree(R2)) = {}

\* C14 amended: each user is in exactly one of the three role states, and the
\* trees are pairwise disjoint as path -> component mappings and in their
\* components, so a URL never resolves to the same page for two roles; the paths
\* themselves are shared: the index by all three trees, classes and students by
\* the ADMIN and TEACHER trees.
C14_RoleTreesShareNoMapping ==
    /\ Cardinality(RoleStates(ctxUser)) = 1
    /\ \A R1, R2 \in RoutedRoles :
          R1 # R2 =>
              /\ RouteSet(FixedTree(R1)) \cap RouteSet(FixedTree(R2)) = {}
              /\ Elements(FixedTree(R1)) \cap Elements(FixedTree(R2)) = {}
              /\ UnderDashboard =>
                    \/ Routes(FixedTree(R1), Tail(pathname)) = "NoMatch"
                    \/ Routes(FixedTree(R1), Tail(pathname))
                          # Routes(FixedTree(R2), Tail(pathname))
    /\ Paths(AdminRoutes) \cap Paths(TeacherRoutes) = {<<>>, <<"classes">>, <<"students">>}
    /\ Paths(AdminRoutes) \cap Paths(SuperAdminRoutes) = {<<>>}
    /\ Paths(TeacherRoutes) \cap Paths(SuperAdminRoutes) = {<<>>}

\* C14 witness: a teacher at /dashboard/classes, a path of the ADMIN tree too,
\* where each tree has its own page.
C14_Witness ==
    /\ ctxUser = "TEACHER"
    /\ RoleStates(ctxUser) = {"TEACHER"}
    /\ pathname = <<"dashboard", "classes">>
    /\ Routes(RouteTree(ctxUser), Tail(pathname)) = "MyClasses"
    /\ Routes(AdminRoutes, Tail(pathname)) = "ClassesManagement"

\* A call of a protected endpoint is on its way and left without credentials.
SentWithoutToken ==
    \E id \in InFlight :
        /\ net[id].config.fn # "authAPI.login"
        /\ net[id].config.Authorization = <<>>

\* The document that made the pending calls was replaced by a page load.
DocumentReplaced == lastEvent = "visit" \/ lastEvent = "reload"

\* C15 as stated: whenever a protected call is made while no token is stored,
\* the user ends up at the login view (unless the document is replaced by a
\* page load before the call is answered).
C15_NoTokenLeadsToLogin ==
    SentWithoutToken ~> (pathname = LoginPath \/ DocumentReplaced)

\* C15 amended: a protected call made while no token is stored leaves without
\* an Authorization header; when the backend answers it with 401 the response
\* interceptor takes the user to the login view as for an expired token; when
\* the call fails without a response nothing forces the re-authentication.
C15_NoTokenLeadsToLoginOn401 ==
    /\ [][\A id \in DOMAIN net' \ DOMAIN net :
            (lsToken = NoToken /\ net'[id].config.fn # "authAPI.login")
                => net'[id].config.Authorization = <<>>]_vars
    /\ [][(lastEvent' = "rejected" /\ Status401(outcome'.error)) =>
            pathname' = LoginPath /\ reloadPending' /\ lsToken' = NoToken]_vars
    /\ SentWithoutToken ~>
          \/ pathname = LoginPath
          \/ DocumentReplaced
          \/ outcome.kind = "rejected" /\ ~outcome.error.hasResponse

\* C15 witness: a document opened under /dashboard with nothing stored made a
\* protected call; it was answered 401 "Not authenticated" and the location is
\* /login, the page load pending.
C15_Witness ==
    /\ lastEvent = "rejected"
    /\ outcome.fn = "schoolsAPI.getAll"
    /\ Status401(outcome.error)
    /\ outcome.error.detail = "Not authenticated"
    /\ pathname = LoginPath
    /\ reloadPending
    /\ ctxUser = NULL

\* No request of the client is in flight and no fetch invocation is waiting.
Quiescent == net = EmptyNet /\ fetches = {}

\* C16: once no request is in flight, the holidays and events the mounted view
\* displays are the server's current collections.
C16_DisplayedEqualsServer ==
    (view.kind = "HolidaysEvents" /\ Quiescent /\ ~view.loading /\ view.error = "") =>
        /\ view.holidays = server.holidays
        /\ view.events = server.events

\* The list fetched after the first create was delivered last: it lacks the
\* second holiday, which the server holds, and nothing is in flight.
StaleHolidayList ==
    /\ view.kind = "HolidaysEvents"
    /\ Quiescent
    /\ lastEvent = "fetched"
    /\ outcome.value.cause = 1
    /\ Cardinality(server.holidays) = 2
    /\ Cardinality(view.holidays) = 1

\* The three create forms, by the collection they add to.
Resources == {"holidays", "events", "classes"}

SubmittedEvent(what) ==
    CASE what = "holidays" -> "holidaySubmitted"
      [] what = "events" -> "eventSubmitted"
      [] what = "classes" -> "classSubmitted"

FormOpen(v, what) ==
    CASE what = "holidays" -> v.showHolidayForm
      [] what = "events" -> v.showEventForm
      [] what = "classes" -> v.showCreateForm

FormValues(v, what) ==
    CASE what = "holidays" -> v.holidayForm
      [] what = "events" -> v.eventForm
      [] what = "classes" -> v.formData

BlankForm(what) ==
    CASE what = "holidays" -> EmptyHolidayForm
      [] what = "events" -> EmptyEventForm
      [] what = "classes" -> EmptyClassForm

SuccessText(what) ==
    CASE what = "holidays" -> "Holiday created successfully!"
      [] what = "events" -> "Event created successfully!"
      [] what = "classes" -> "Class created successfully!"

FailureText(what) ==
    CASE what = "holidays" -> "Failed to create holiday"
      [] what = "events" -> "Failed to create event"
      [] what = "classes" -> "Failed to create class"

\* The fetch invocations a step starts.
Started == {f \in fetches' : \A g \in fetches : g.id # f.id}

\* The instance whose create call a step settles is still mounted.
CreatorLive ==
    \E id \in Settled : net[id].owner.kind = "create" /\ Live(World, net[id].owner.inst)

\* C17: a submit only makes the create call; the step that handles its success
\* closes and resets the form, starts the refetch and shows the success alert;
\* the form is reset, a refetch started and the success alert shown in no other
\* step; the step that handles its failure leaves the view as it is, starts no
\* fetch, sends nothing and shows the failure alert.
C17_SubmitStepsInOrder ==
    [][\A what \in Resources :
        /\ lastEvent' = SubmittedEvent(what) =>
              /\ Cardinality(Sent) = 1
              /\ \A id \in Sent : net'[id].owner = CreateOwner(view.inst, what)
              /\ view' = view /\ fetches' = fetches /\ alertMsg' = alertMsg
        /\ lastEvent' = CreatedEvent(what) =>
              /\ outcome'.kind = "resolved"
              /\ outcome'.value \in server[what]
              /\ CreatorLive =>
                    /\ ~FormOpen(view', what)
                    /\ FormValues(view', what) = BlankForm(what)
                    /\ view'.loading
              /\ Cardinality(Started) = 1
              /\ \A f \in Started : f.cause = outcome'.value.id
              /\ Sent # {}
              /\ \A id \in Sent : /\ net'[id].owner.kind = "get"
                                  /\ \E f \in Started : net'[id].owner.fetch = f.id
              /\ alertMsg' = SuccessText(what)
        /\ (\E f \in Started : f.cause # 0) => lastEvent' \in CreatedEvents
        /\ (alertMsg' = SuccessText(what) /\ alertMsg # alertMsg')
              => lastEvent' = CreatedEvent(what)
        /\ lastEvent' = CreateFailedEvent(what) =>
              /\ outcome'.kind = "rejected"
              /\ view' = view
              /\ Started = {}
              /\ Sent = {}
              /\ alertMsg' = AlertText(outcome'.error, FailureText(what))]_vars

\* C17 witness: the create call of the holiday form was just fulfilled: the form
\* is closed and blank, the refetch for the created record is waiting with its
\* two requests unanswered, and the success alert is up.
C17_Witness ==
    /\ lastEvent = "holidayCreated"
    /\ view.kind = "HolidaysEvents"
    /\ ~view.showHolidayForm
    /\ view.holidayForm = EmptyHolidayForm
    /\ view.loading
    /\ \E f \in fetches : f.cause = 1 /\ f.inst = view.inst
    /\ Cardinality({id \in DOMAIN net : ~net[id].answered}) = 2
    /\ server.holidays # {}
    /\ alertMsg = "Holiday created successfully!"

\* The lists a view holds, by collection.
Lists(v) ==
    CASE v.kind = "HolidaysEvents" -> [holidays |-> v.holidays, events |-> v.events]
      [] v.kind = "ClassesManagement" ->
            [classes |-> v.classes, subjects |-> v.subjects, teachers |-> v.teachers]
      [] OTHER -> [none |-> {}]

LoadError(v) ==
    IF v.kind = "HolidaysEvents"
    THEN "Failed to load holidays and events. Please try again."
    ELSE "Failed to load classes. Please try again."

\* The fetch invocations a step completes (fulfilled or rejected).
Completed == {f \in fetches : \A g \in fetches' : g.id # f.id}

\* What the last response of a completed invocation delivered for a part.
Delivered(f, what) ==
    IF f.parts[what].done
    THEN f.parts[what].items
    ELSE LET id == CHOOSE i \in Settled : net[i].owner.what = what
         IN  net[id].resp.data.items

\* C18: a fetch is all or nothing for the view.  Its calls leave together, in
\* the step that starts it; when one of them is rejected no list changes and
\* the load-error message is set; when all are fulfilled every list becomes
\* what its call returned and the message is cleared; and the lists of a
\* mounted view change in no other step.
C18_FetchIsAtomic ==
    [][/\ \A f \in Started :
            /\ {net'[id].owner.what : id \in {i \in Sent : net'[i].owner.kind = "get"}}
                  = DOMAIN f.parts
            /\ \A what \in DOMAIN f.parts : ~f.parts[what].done
       /\ (lastEvent' = "fetchFailed" /\ Live(World, outcome'.value.inst)) =>
            /\ Lists(view') = Lists(view)
            /\ view'.error = LoadError(view)
            /\ ~view'.loading
       /\ (lastEvent' = "fetched" /\ Live(World, outcome'.value.inst)) =>
            /\ \A f \in Completed : \A what \in DOMAIN f.parts :
                  Lists(view')[what] = Delivered(f, what)
            /\ view'.error = ""
            /\ ~view'.loading
       /\ (view.kind # "none" /\ view'.kind = view.kind /\ view'.inst = view.inst
              /\ Lists(view') # Lists(view)) => lastEvent' = "fetched"]_vars

\* C18 witness: the refetch after a stored class failed on one of its three
\* calls: the view still holds the lists of the page load (no class, the
\* subjects and teachers) and shows the load-error message.
C18_Witness ==
    /\ lastEvent = "fetchFailed"
    /\ view.kind = "ClassesManagement"
    /\ outcome.value.cause = 1
    /\ outcome.value.inst = view.inst
    /\ view.error = "Failed to load classes. Please try again."
    /\ view.classes = {}
    /\ view.subjects # {}
    /\ server.classes # {}
    /\ \E id \in DOMAIN net : net[id].owner.kind = "get" /\ net[id].answered /\ net[id].resp.ok

\* C19: the alert of a failed create shows the detail string of the error
\* response when there is one, and the fallback string of the operation when
\* there is no response or the response has no detail.
C19_FailedCreateAlert ==
    [][\A what \in Resources :
        lastEvent' = CreateFailedEvent(what) =>
            /\ outcome'.kind = "rejected"
            /\ DetailProvided(outcome'.error) => alertMsg' = outcome'.error.detail
            /\ ~outcome'.error.hasResponse => alertMsg' = FailureText(what)
            /\ (outcome'.error.hasResponse /\ outcome'.error.detail \in {NoDetail, ""})
                  => alertMsg' = FailureText(what)]_vars

\* C19 witness: the create call of the event form failed without a response;
\* the alert shows the fallback string of the event form.
C19_Witness ==
    /\ lastEvent = "eventCreateFailed"
    /\ outcome.fn = "schoolAdminAPI.createEvent"
    /\ ~outcome.error.hasResponse
    /\ alertMsg = "Failed to create event"
    /\ view.kind = "HolidaysEvents"
    /\ view.showEventForm

\* The steps in which a response is handed to the client's handlers.
DeliveryEvents ==
    {"resolved", "login", "fetched", "partial"} \cup RejectionEvents \cup CreatedEvents

\* The request a step settles was made by a view instance that is gone.
SettledForDeadView ==
    \E id \in Settled :
        net[id].owner.kind \in {"get", "create"} /\ ~Live(World, net[id].owner.inst)

\* C20 as stated: a pending request is never dropped: it leaves the client only
\* by having its response handled.
C20_RequestsAlwaysHandled ==
    [][Settled # {} => lastEvent' \in DeliveryEvents]_vars

\* C20 amended: nothing in the client cancels a request.  Unmounting the view
\* leaves every pending request in place; a request leaves only by having its
\* response handled or with the page load that the 401 handler starts; every
\* handled 401 runs the 401 handler, whether the view is still mounted or not;
\* for a view that is gone the handlers still run (the refetch after a create
\* is still made) but their state updates have no effect; and every pending
\* request is eventually gone.
C20_RequestsHandledUnlessPageLoad ==
    /\ [][/\ lastEvent' = "unmount" => net' = net /\ fetches' = fetches
          /\ Settled # {} => lastEvent' \in DeliveryEvents \cup {"reload"}
          /\ lastEvent' = "reload" => reloadPending
          /\ \A id \in Settled :
                (lastEvent' \in DeliveryEvents /\ Status401(net[id].resp)) =>
                    /\ lsToken' = NoToken
                    /\ lsUser' = NULL
                    /\ pathname' = LoginPath
                    /\ reloadPending'
          /\ (SettledForDeadView /\ lastEvent' \in DeliveryEvents) =>
                /\ view' = view
                /\ lastEvent' \in CreatedEvents => Started # {} /\ Sent # {}]_vars
    /\ (net # EmptyNet) ~> (net = EmptyNet)

\* C20 witness: the view was left while its fetch was pending; one of the calls
\* then came back 401 and the 401 handler ran: storage cleared, location /login.
C20_Witness ==
    /\ lastEvent = "fetchFailed"
    /\ view.kind = "none"
    /\ quota.mounts = 1
    /\ Status401(outcome.error)
    /\ lsToken = NoToken
    /\ lsUser = NULL
    /\ pathname = LoginPath
    /\ reloadPending

TwoSuperAdmins ==
    /\ Cardinality(SuperAdmins(server.users)) = 2
    /\ \E a, b \in 1..MaxSetupAttempts :
          /\ a # b
          /\ server.setup[a].report.success
          /\ server.setup[b].report.success

\* C22: the 401 handler does not compare tokens.  When a request that left
\* with one token is answered 401 while the storage holds another token (a
\* login in between), the stored token and user are removed all the same and
\* the location becomes /login.
C22_Stale401ClearsNewToken ==
    [][(/\ lastEvent' = "rejected"
        /\ Status401(outcome'.error)
        /\ outcome'.value.storedToken # NoToken
        /\ outcome'.value.config.Authorization # <<"Bearer">> \o outcome'.value.storedToken)
          => /\ lsToken' = NoToken
             /\ lsUser' = NULL
             /\ pathname' = LoginPath
             /\ reloadPending']_vars

\* C22 witness: a request that left with token 1 was answered 401 when the
\* storage held token 2; nothing is stored any more and the location is /login.
C22_Witness ==
    /\ lastEvent = "rejected"
    /\ Status401(outcome.error)
    /\ outcome.value.config.Authorization = <<"Bearer", 1>>
    /\ outcome.value.storedToken = <<2>>
    /\ lsToken = NoToken
    /\ lsUser = NULL
    /\ pathname = LoginPath
    /\ reloadPending

\* The sidebar items the screen shows, and the page an item leads the viewer to.
ShownItems == {i \in 1..Len(menuItems) : menuItems[i].id \in Screen.sidebar}
ItemTarget(i) == Routes(RouteTree(ctxUser), Tail(menuItems[i].path))
OtherTrees == {t \in {AdminRoutes, TeacherRoutes, SuperAdminRoutes} : t # RouteTree(ctxUser)}

\* C23: every sidebar item shown to a viewer leads to a route of the viewer's
\* own tree and to no page of another role's tree; a screen other than the
\* shell shows no item; and a click on an item shows a page of the viewer's tree.
C23_MenuWithinOwnTree ==
    /\ [](/\ \A i \in ShownItems :
               /\ menuItems[i].path[1] = "dashboard"
               /\ ItemTarget(i) \in Elements(RouteTree(ctxUser))
               /\ \A t \in OtherTrees : ItemTarget(i) \notin Elements(t)
          /\ Screen.screen # "Shell" => Screen.sidebar = {})
    /\ [][lastEvent' = "navigate" =>
            /\ Screen'.screen = "Shell"
            /\ Screen'.children \in Elements(RouteTree(ctxUser))
            /\ \E i \in ShownItems : pathname' = menuItems[i].path]_vars

\* C23 witness: a super admin clicked 'Create Admin' in the sidebar and sees
\* the CreateAdmin page of the super-admin tree, the six items still shown.
C23_Witness ==
    /\ ctxUser = "SUPER_ADMIN"
    /\ lastEvent = "navigate"
    /\ pathname = <<"dashboard", "create-admin">>
    /\ Screen.children = "CreateAdmin"
    /\ Cardinality(ShownItems) = 6

\* The page the Dashboard hands to the Layout as its children.
DashboardChildren == Routes(RouteTree(ctxUser), Tail(pathname))

\* C24: for a user who is neither ADMIN nor TEACHER (no user included) the
\* Dashboard selects the super-admin tree and hands the Layout the super-admin
\* page of the URL; whether that page is rendered is decided by the isSuperAdmin
\* gate of the Layout alone: it is rendered for a super admin and replaced by
\* the access-denied screen for everybody else.
C24_SuperAdminTreeIsDefault ==
    (ctxUser \notin {"ADMIN", "TEACHER"}) =>
        /\ RouteTree(ctxUser) = SuperAdminRoutes
        /\ UnderDashboard =>
              /\ DashboardChildren = Routes(SuperAdminRoutes, Tail(pathname))
              /\ Screen = Layout(IsSuperAdmin(ctxUser), DashboardChildren)
              /\ IsSuperAdmin(ctxUser) => Screen.children = DashboardChildren
              /\ ~IsSuperAdmin(ctxUser) => Screen = AccessDenied

\* C24 witness: a signed-in student opened /dashboard/schools: the Dashboard
\* selected the super-admin tree and its SchoolList page, the Layout shows the
\* access-denied screen.
C24_Witness ==
    /\ ctxUser = "STUDENT"
    /\ pathname = <<"dashboard", "schools">>
    /\ RouteTree(ctxUser) = SuperAdminRoutes
    /\ DashboardChildren = "SchoolList"
    /\ Screen = AccessDenied

\* The create calls of the holiday form that are in flight.
PendingHolidayCreates ==
    {id \in DOMAIN net : net[id].owner.kind = "create" /\ net[id].owner.what = "holidays"}

\* C25: a submit leaves the form as it is, open and filled in, and the create
\* calls already in flight where they are; right after a submit the form can be
\* submitted again; and the call of that second submit carries the payload of
\* the form, the same as the first when the form was not edited in between.
C25_SecondSubmitNotPrevented ==
    /\ [][lastEvent' = "holidaySubmitted" =>
            /\ view' = view
            /\ view'.showHolidayForm /\ ~view'.loading
            /\ \A id \in PendingHolidayCreates : id \in DOMAIN net' /\ net'[id] = net[id]
            /\ Cardinality(Sent) = 1
            /\ \A id \in Sent : net'[id].config.data = view.holidayForm]_vars
    /\ []((lastEvent = "holidaySubmitted" /\ quota.resubmits < MaxResubmits)
            => ENABLED ResubmitHolidayForm)
    /\ [][(lastEvent = "holidaySubmitted" /\ lastEvent' = "holidaySubmitted") =>
            \E i, j \in DOMAIN net' :
                /\ i # j
                /\ {i, j} \subseteq {id \in DOMAIN net' : net'[id].owner.kind = "create"}
                /\ net'[i].config = net'[j].config]_vars

\* C25 witness: the holiday form was submitted twice in a row: two create
\* calls with the same payload are in flight, neither answered, the form is
\* still open with the values sent.
C25_Witness ==
    /\ lastEvent = "holidaySubmitted"
    /\ quota.submits = 1 /\ quota.resubmits = 1
    /\ Cardinality(PendingHolidayCreates) = 2
    /\ \A i, j \in PendingHolidayCreates :
          net[i].config.data = net[j].config.data /\ ~net[i].answered
    /\ view.showHolidayForm
    /\ \A i \in PendingHolidayCreates : net[i].config.data = view.holidayForm

\* The 401 handler of the response interceptor ran in this step.
GlobalHandlerRan ==
    /\ lsToken' = NoToken
    /\ lsUser' = NULL
    /\ pathname' = LoginPath
    /\ reloadPending'

\* The requests whose 401 response a step hands to the client.
Settled401 ==
    {id \in Settled : lastEvent' # "reload" /\ net[id].answered /\ Status401(net[id].resp)}

\* The catch block of the create handler ran for request id.
CreateCatchRan(id) ==
    /\ lastEvent' = CreateFailedEvent(net[id].owner.what)
    /\ alertMsg' = AlertText(net[id].resp, FailureText(net[id].owner.what))
    /\ view' = view

\* The catch block of the fetch function ran for request id.
FetchCatchRan(id) ==
    /\ lastEvent' = "fetchFailed"
    /\ Live(World, net[id].owner.inst) =>
          /\ view'.error = LoadError(view)
          /\ ~view'.loading
          /\ Lists(view') = Lists(view)

\* C26 as stated: every 401 response to a create or fetch call is handled
\* twice: by the 401 handler and by the catch block of the view.
C26_UnauthorizedHandledTwice ==
    [][\A id \in Settled401 :
          /\ GlobalHandlerRan
          /\ net[id].owner.kind = "create" => CreateCatchRan(id)
          /\ net[id].owner.kind = "get" => FetchCatchRan(id)]_vars

\* C26 amended: every 401 response runs the 401 handler; the catch block of a
\* create handler runs as well (failure alert, form untouched); the catch block
\* of a fetch runs as well when the fetch is still waiting, but a 401 for a call
\* of a fetch that an earlier rejection has already ended reaches no catch
\* block: the view is left as it is.
C26_UnauthorizedHandledTwiceWhileAwaited ==
    [][\A id \in Settled401 :
          /\ GlobalHandlerRan
          /\ net[id].owner.kind = "create" => CreateCatchRan(id)
          /\ net[id].owner.kind = "get" =>
                IF \E f \in fetches : f.id = net[id].owner.fetch
                THEN FetchCatchRan(id)
                ELSE /\ lastEvent' = "ignored"
                     /\ view' = view
                     /\ alertMsg' = alertMsg]_vars

\* C26 witness: a call of the page-load fetch came back 401: storage cleared,
\* location /login, and the view shows the load-error message.
C26_Witness ==
    /\ lastEvent = "fetchFailed"
    /\ Status401(outcome.error)
    /\ lsToken = NoToken /\ lsUser = NULL
    /\ pathname = LoginPath /\ reloadPending
    /\ view.kind = "HolidaysEvents"
    /\ view.error = "Failed to load holidays and events. Please try again."
    /\ ~view.loading

\* A 401 came back for a call of a fetch that had failed before, after a later
\* fetch cleared the message: the session is reset, no message is shown.
UnauthorizedWithoutCatch ==
    /\ lastEvent = "ignored"
    /\ Status401(outcome.error)
    /\ lsToken = NoToken
    /\ reloadPending
    /\ view.kind = "HolidaysEvents"
    /\ view.error = ""

\* What the user does with the rendered view (buttons, inputs, submits).
ViewEvents ==
    {"edit", "holidaySubmitted", "holidayInvalid", "eventSubmitted",
     "eventInvalid", "classSubmitted", "classInvalid"}

Loading == view.kind # "none" /\ view.loading

\* C27: every fetch a mounted view starts sets loading; the step that ends a
\* fetch of the mounted view, fulfilled or rejected, clears it; while loading is
\* set nothing of the view but the spinner is there to act on; and, the backend
\* answering and the answers being delivered, a set loading flag is eventually
\* cleared (or the view is gone).
C27_LoadingUntilFetchSettles ==
    /\ [][/\ \A f \in Started :
                (view'.kind # "none" /\ view'.inst = f.inst) => view'.loading
          /\ \A f \in Completed :
                (lastEvent' \in {"fetched", "fetchFailed"} /\ Live(World, f.inst)) =>
                    ~view'.loading
          /\ Loading => lastEvent' \notin ViewEvents]_vars
    /\ Loading ~> ~Loading

\* C27 witness: the refetch after a create has come back and the spinner is
\* gone: the lists are rendered again.
C27_Witness ==
    /\ lastEvent = "fetched"
    /\ view.kind = "HolidaysEvents"
    /\ ~view.loading
    /\ view.holidays # {}
    /\ quota.submits = 1

\* Two refetches overlapped and the first to come back cleared loading: the
\* view is rendered while the other refetch is still awaited.
FetchAwaitedWithoutSpinner ==
    /\ view.kind = "HolidaysEvents"
    /\ ~view.loading
    /\ \E f \in fetches : f.inst = view.inst

\* A step of the holiday form: its button, its inputs, its submit, the handling
\* of its create call.
HolidayFormStep ==
    \/ view'.showHolidayForm # view.showHolidayForm
    \/ view'.holidayForm # view.holidayForm
    \/ lastEvent' \in {"holidaySubmitted", "holidayInvalid", "holidayCreated",
                       "holidayCreateFailed"}

\* A step of the event form, likewise.
EventFormStep ==
    \/ view'.showEventForm # view.showEventForm
    \/ view'.eventForm # view.eventForm
    \/ lastEvent' \in {"eventSubmitted", "eventInvalid", "eventCreated",
                       "eventCreateFailed"}

\* C28: the two forms are independent.  While the view stays mounted, a step of
\* the holiday form (toggle, cancel, input, submit, created, create failed)
\* leaves the values and the open flag of the event form as they were, and a
\* step of the event form leaves those of the holiday form as they were.
C28_FormsIndependent ==
    [][(view.kind = "HolidaysEvents" /\ view'.kind = "HolidaysEvents") =>
          /\ HolidayFormStep =>
                /\ view'.eventForm = view.eventForm
                /\ view'.showEventForm = view.showEventForm
          /\ EventFormStep =>
                /\ view'.holidayForm = view.holidayForm
                /\ view'.showHolidayForm = view.showHolidayForm]_vars

\* C28 witness: a holiday was created while the event form was open and partly
\* filled in; the event form is still open with its values.
C28_Witness ==
    /\ lastEvent = "holidayCreated"
    /\ view.kind = "HolidaysEvents"
    /\ ~view.showHolidayForm
    /\ view.holidayForm = EmptyHolidayForm
    /\ view.showEventForm
    /\ view.eventForm.title = "Sports day"

\* The exports of the extended module outside schoolAdminAPI.
SharedExports == {e \in ExtendedApiExports : e.ns # "schoolAdminAPI"}

\* The export that made a request, looked up in a version of the module.
ExportOf(exports, config) ==
    {e \in exports : /\ config.fn = e.ns \o "." \o e.name
                     /\ config.method = e.method
                     /\ MatchesRoute(e.url, config.url)}

DashboardUrls == {path \in VisitedPaths : path[1] = "dashboard"}

\* C29: the extensions change nothing of what was there.  For a user who is
\* neither ADMIN nor TEACHER the role-aware Dashboard mounts the routes of the
\* earlier Dashboard and renders the same screen at every URL; the api module
\* with schoolAdminAPI exports the same authAPI, schoolsAPI, adminsAPI and
\* dashboardAPI functions as the module without it, its interceptors give the
\* same header for every request in flight and the same session reset for every
\* answer to it, and every request in flight that is not of schoolAdminAPI is
\* the request of the same export in both.
C29_ExtensionsChangeNothing ==
    /\ ctxUser \notin {"ADMIN", "TEACHER"} =>
          /\ RouteTree(ctxUser) = EarlierDashboardRoutes
          /\ \A path \in DashboardUrls :
                Dashboard(ctxUser, Tail(path)) = EarlierDashboard(ctxUser, Tail(path))
    /\ SharedExports = ApiExports
    /\ \A id \in DOMAIN net :
          LET config == net[id].config
              bare == [config EXCEPT !.Authorization = <<>>]
          IN  /\ ExtendedRequestInterceptor(bare, lsToken) =
                    RequestInterceptor(bare, lsToken)
              /\ \A resp \in BackendAnswers(config) :
                    ExtendedResponseErrorInterceptor(resp, Browser) =
                        ResponseErrorInterceptor(resp, Browser)
              /\ ExportOf(ExtendedApiExports, config) # {}
              /\ ExportOf(SharedExports, config) = ExportOf(ApiExports, config)
              /\ \A e \in ExportOf(ExtendedApiExports, config) :
                    (e.returns = "true") <=>
                        (ReturnValue(config.fn, OkResp([body |-> config.fn])) =
                            [true |-> TRUE])

\* C29 witness: a user of a role the Dashboard does not know is signed in and
\* an adminsAPI call has left with the bearer token.
C29_Witness ==
    /\ ctxUser = "GUEST"
    /\ lsToken # NoToken
    /\ \E id \in DOMAIN net :
          /\ net[id].config.fn = "adminsAPI.invite"
          /\ net[id].config.Authorization = <<"Bearer">> \o lsToken

\* The item's path is the whole pathname or its first segments.
LeadsTo(path) ==
    \/ pathname = path
    \/ Len(pathname) > Len(path) /\ SubSeq(pathname, 1, Len(path)) = path

\* C30: where the sidebar is drawn, an item is highlighted exactly when the
\* pathname is the item's path or continues it after a "/"; so the Dashboard
\* item is highlighted on every page under /dashboard, on /dashboard/schools
\* the Dashboard and the Schools items are both highlighted, and on
\* /dashboard/create-school the Schools item is not.
C30_ActiveItems ==
    Screen.screen = "Shell" =>
        /\ \A i \in 1..Len(menuItems) :
              menuItems[i].id \in ActiveItems <=> LeadsTo(menuItems[i].path)
        /\ "dashboard" \in ActiveItems
        /\ pathname = <<"dashboard", "schools">> =>
              ActiveItems = {"dashboard", "schools"}
        /\ pathname = <<"dashboard", "create-school">> =>
              /\ "schools" \notin ActiveItems
              /\ ActiveItems = {"dashboard", "create-school"}
        /\ pathname = DashboardPath => ActiveItems = {"dashboard"}

\* C30 witness: a super admin is on the page of one school and two items are
\* highlighted at once.
C30_Witness ==
    /\ ctxUser = "SUPER_ADMIN"
    /\ Screen.screen = "Shell"
    /\ pathname = <<"dashboard", "schools", "7">>
    /\ ActiveItems = {"dashboard", "schools"}

====
